---- MODULE Spec2Model ----
(***************************************************************************)
(* Model of the dynamic table store (SQLiteDynTableStore), the typed CRUD  *)
(* engine (SQLiteDynTable) and the two query evaluators (compileQuery /    *)
(* resolveQuery) of tiny-deno.                                             *)
(*                                                                         *)
(* The SQLite database is modelled as a record                             *)
(*   [catalog, tables, indexes]                                            *)
(* and every SQL statement the code issues is an operator from a database  *)
(* to a result [ok, db]; ok = FALSE means the statement raised.            *)
(***************************************************************************)
EXTENDS Integers, Sequences, FiniteSets, TLC

\* ------------------------------------------------------------------ bounds
MaxRows    == 2     \* rows per physical table
MaxIds     == 3     \* ids handed out by the id generator
MaxVersion == 2     \* redefinitions per table that change the schema
MaxBatch   == 2     \* operations in one batch call
MaxFound   == 3     \* records of the table that is searched

\* ------------------------------------------------------------------ values
\* A run-time value is [k, n]: k is the JavaScript/SQLite kind and n the
\* payload.  A string [k |-> "str", n |-> i] is the decimal text of i when
\* i >= 0 and a text that is not numeric when i < 0.
Val(k, n) == [k |-> k, n |-> n]
Null      == Val("null", 0)
Undef     == Val("undef", 0)
NaN       == Val("nan", 0)
Num(n)    == Val("num", n)
Str(n)    == Val("str", n)
Bool(b)   == Val("bool", IF b THEN 1 ELSE 0)

IsNullish(v) == v.k \in {"null", "undef"}

\* ------------------------------------------------------------ sequence aids
Range(s) == { s[i] : i \in 1..Len(s) }

RECURSIVE SeqFilter(_, _)
SeqFilter(s, keep) ==
  IF s = <<>> THEN <<>>
  ELSE IF Head(s) \in keep THEN <<Head(s)>> \o SeqFilter(Tail(s), keep)
       ELSE SeqFilter(Tail(s), keep)

IndexOf(s, x) == IF \E i \in 1..Len(s) : s[i] = x
                 THEN CHOOSE i \in 1..Len(s) : s[i] = x /\ \A j \in 1..(i-1) : s[j] # x
                 ELSE 0

RECURSIVE Join(_, _)
Join(s, sep) ==
  IF s = <<>> THEN ""
  ELSE IF Len(s) = 1 THEN s[1]
       ELSE s[1] \o sep \o Join(Tail(s), sep)

\* ------------------------------------------------------------------ schemas
Absent == "<absent>"

Col(name, type, nullable, meta) ==
  [name |-> name, type |-> type, nullable |-> nullable, meta |-> meta]

Idx(fields, unique) == [fields |-> fields, unique |-> unique]

Schema(columns, indexes) == [columns |-> columns, indexes |-> indexes]

ColNames(columns) == [i \in 1..Len(columns) |-> columns[i].name]

\* variant: the id column is replaced where the caller gave one, never added
SetIdWhereGiven(columns, meta) ==
  LET def == Col("id", "ID", FALSE, meta)
      i   == IndexOf(ColNames(columns), "id")
  IN IF i = 0 THEN columns
     ELSE [columns EXCEPT ![i] = def]

\* schema.columns.id = { type: ColumnType.ID, nullable: false, meta }
\* assignment to a property keeps the position of an existing key and
\* appends a new key
SetId(columns, meta) ==
  LET def == Col("id", "ID", FALSE, meta)
      i   == IndexOf(ColNames(columns), "id")
  IN IF i = 0 THEN Append(columns, def)
     ELSE [columns EXCEPT ![i] = def]

\* JSON.stringify / JSON.parse of the columns and indexes of a schema: the
\* text is modelled as the sequence of its members, an absent optional
\* member (meta) is not written and is absent again after parsing
StringifyColumns(columns) ==
  [i \in 1..Len(columns) |->
     <<columns[i].name, columns[i].type, columns[i].nullable>>
       \o (IF columns[i].meta = Absent THEN <<>> ELSE <<columns[i].meta>>)]

ParseColumns(text) ==
  [i \in 1..Len(text) |->
     Col(text[i][1], text[i][2], text[i][3],
         IF Len(text[i]) = 4 THEN text[i][4] ELSE Absent)]

StringifyIndexes(indexes) ==
  [i \in 1..Len(indexes) |-> <<indexes[i].fields, indexes[i].unique>>]

ParseIndexes(text) ==
  [i \in 1..Len(text) |-> Idx(text[i][1], text[i][2])]

\* lodash isEqual on { columns, indexes }: objects compare by their own keys
\* whatever the key order, arrays compare element by element
IsEqual(a, b) ==
  /\ Range(a.columns) = Range(b.columns)
  /\ Len(a.columns) = Len(b.columns)
  /\ a.indexes = b.indexes

\* ----------------------------------------------------------------- database
Separator == "_"
Prefix    == "prefix"

Names == {"t", "u"}

Tbl(table)    == Prefix \o Separator \o table
Shadow(table) == "_" \o Tbl(table)

PhysNames == { Tbl(t) : t \in Names } \cup { Shadow(t) : t \in Names }

NoEntry == [exists |-> FALSE, columns |-> <<>>, indexes |-> <<>>, version |-> 0]
NoTable == [exists |-> FALSE, cols |-> <<>>, rows |-> <<>>]

EmptyDb == [catalog |-> [t \in Names |-> NoEntry],
            tables  |-> [p \in PhysNames |-> NoTable],
            indexes |-> {}]

\* the users, scopes and type names of the tenants of a HelpfulTinyDb and
\* the prefixes it is constructed with
TinyPrefixes == {"", "p"}
Users        == {"a", "ab"}
Scopes       == {"", "s"}
TypeNames    == {"U", "W"}

\* the characters of a word
WordChars(word) ==
  CASE word = ""   -> <<>>
    [] word = "tu" -> <<"t", "u">>
    [] word = "ab" -> <<"a", "b">>
    [] word = "UW" -> <<"U", "W">>
    [] OTHER       -> <<word>>

\* the text of a sequence of characters (or of longer pieces)
TextOf(chars) == Join(chars, "")

RECURSIVE JoinChars(_, _)
JoinChars(parts, sep) ==
  IF parts = <<>> THEN <<>>
  ELSE IF Len(parts) = 1 THEN parts[1]
       ELSE parts[1] \o sep \o JoinChars(Tail(parts), sep)

\* [ ...parts ].filter(Boolean).join(separator), as characters
TableChars(parts) ==
  JoinChars([i \in 1..Len(SelectSeq(parts, LAMBDA w : w # "")) |->
               WordChars(SelectSeq(parts, LAMBDA w : w # "")[i])],
            <<Separator>>)

\* the names, and the beginnings of names, the tenants' tables can have
TenantChars ==
  { TableChars(<<p, u, s>>) : p \in TinyPrefixes, u \in Users, s \in Scopes }
  \cup { TableChars(<<p, u, s, n>>) :
           p \in TinyPrefixes, u \in Users, s \in Scopes, n \in TypeNames }

HelpfulNames ==
  { TextOf(TableChars(<<p, u, s, n>>)) :
      p \in TinyPrefixes, u \in Users, s \in Scopes, n \in TypeNames }

\* the database of a HelpfulTinyDb constructed with a prefix, before any
\* table is registered; kv is the table of the key-value store: the set of
\* its rows [key, value], the key as its characters
HelpfulDb(prefix) ==
  [catalog |-> [t \in HelpfulNames |-> NoEntry],
   tables  |-> [p \in { Tbl(t) : t \in HelpfulNames } \cup { Shadow(t) : t \in HelpfulNames }
                  |-> NoTable],
   indexes |-> {},
   prefix  |-> prefix,
   kv      |-> {}]

\* the outcome of a statement: ok = FALSE when it raised, rows are the rows
\* it returned (SELECT, RETURNING *)
Ret(db, rows) == [ok |-> TRUE,  db |-> db, rows |-> rows]
Ok(db)        == Ret(db, <<>>)
Fail(db)      == [ok |-> FALSE, db |-> db, rows |-> <<>>]

\* F of the value v, v being worked out once
With(v, F(_)) == CHOOSE y \in { F(x) : x \in {v} } : TRUE

\* run the next statement unless the previous one raised
Then(r, F(_)) == IF r.ok THEN F(r.db) ELSE r

\* #mapColumns: the SQL declaration of every column
MapColumns(columns) ==
  [i \in 1..Len(columns) |->
     IF columns[i].name = "id"
     THEN [name |-> "id", aff |-> "TEXT", notnull |-> FALSE, pk |-> TRUE]
     ELSE [name    |-> columns[i].name,
           aff     |-> IF columns[i].type = "Int" THEN "INTEGER"
                       ELSE IF columns[i].type = "Float" THEN "REAL"
                       ELSE "TEXT",
           notnull |-> ~columns[i].nullable,
           pk      |-> FALSE]]

DeclNames(cols) == [i \in 1..Len(cols) |-> cols[i].name]

\* binding a JavaScript value as a statement parameter
Bind(v) ==
  IF IsNullish(v) THEN Null
  ELSE IF v.k = "bool" THEN Num(v.n)
  ELSE v

\* the column affinity applied when a value is stored
Affinity(aff, v) ==
  IF v.k = "null" THEN v
  ELSE IF aff = "TEXT" THEN Str(v.n)
  ELSE IF v.k = "str" /\ v.n >= 0 THEN Num(v.n)
  ELSE v

Store(cols, row) == [i \in 1..Len(cols) |-> Affinity(cols[i].aff, row[i])]

\* constraints of a physical table: NOT NULL columns, the primary key and
\* the unique indexes (NULLs never collide)
Project(cols, row, fields) ==
  [i \in 1..Len(fields) |-> row[IndexOf(DeclNames(cols), fields[i])]]

UniqueOn(cols, rows, fields) ==
  \A i, j \in 1..Len(rows) :
    (i # j /\ \A f \in 1..Len(fields) : Project(cols, rows[i], fields)[f].k # "null")
      => Project(cols, rows[i], fields) # Project(cols, rows[j], fields)

RowsValid(db, phys, cols, rows) ==
  /\ \A r \in 1..Len(rows), c \in 1..Len(cols) :
       cols[c].notnull => rows[r][c].k # "null"
  /\ \A c \in 1..Len(cols) : cols[c].pk => UniqueOn(cols, rows, <<cols[c].name>>)
  /\ \A ix \in db.indexes :
       (ix.tbl = phys /\ ix.unique) => UniqueOn(cols, rows, ix.fields)

NameTaken(db, n) ==
  \/ (n \in DOMAIN db.tables /\ db.tables[n].exists)
  \/ \E ix \in db.indexes : ix.name = n

\* variant: INSERT OR REPLACE, which takes the place of an existing entry
CatalogInsertOrReplace(db, table, columns, indexes) ==
  Ok([db EXCEPT !.catalog[table] =
        [exists  |-> TRUE,
         columns |-> StringifyColumns(columns),
         indexes |-> StringifyIndexes(indexes),
         version |-> 0]])

\* INSERT INTO "<schemaTable>" (name, columns, indexes) VALUES ($1, $2, $3)
CatalogInsert(db, table, columns, indexes) ==
  IF db.catalog[table].exists THEN Fail(db)
  ELSE Ok([db EXCEPT !.catalog[table] =
             [exists  |-> TRUE,
              columns |-> StringifyColumns(columns),
              indexes |-> StringifyIndexes(indexes),
              version |-> 0]])

\* UPDATE "<schemaTable>" SET columns=$1, indexes=$2, version=$3 WHERE name = $4
CatalogUpdate(db, table, columns, indexes, version) ==
  IF ~db.catalog[table].exists THEN Ok(db)
  ELSE Ok([db EXCEPT !.catalog[table] =
             [exists  |-> TRUE,
              columns |-> StringifyColumns(columns),
              indexes |-> StringifyIndexes(indexes),
              version |-> version]])

\* DELETE FROM "<schemaTable>" WHERE name = $1
CatalogDelete(db, table) == Ok([db EXCEPT !.catalog[table] = NoEntry])

\* CREATE TABLE "<phys>" ( ... )
CreateTable(db, phys, cols) ==
  IF NameTaken(db, phys) \/ Len(cols) = 0 THEN Fail(db)
  ELSE Ok([db EXCEPT !.tables[phys] = [exists |-> TRUE, cols |-> cols, rows |-> <<>>]])

\* CREATE [UNIQUE] INDEX "<name>" ON "<phys>" (fields)
CreateIndex(db, name, phys, index) ==
  IF \/ NameTaken(db, name)
     \/ ~db.tables[phys].exists
     \/ Len(index.fields) = 0
     \/ ~(Range(index.fields) \subseteq Range(DeclNames(db.tables[phys].cols)))
     \/ (index.unique /\ ~UniqueOn(db.tables[phys].cols, db.tables[phys].rows, index.fields))
  THEN Fail(db)
  ELSE Ok([db EXCEPT !.indexes = @ \cup
             {[name |-> name, tbl |-> phys, fields |-> index.fields, unique |-> index.unique]}])

\* DROP TABLE "<phys>": the indexes of the table go with it
DropTable(db, phys) ==
  IF ~db.tables[phys].exists THEN Fail(db)
  ELSE Ok([db EXCEPT !.tables[phys] = NoTable,
                     !.indexes = { ix \in @ : ix.tbl # phys }])

\* DROP TABLE IF EXISTS "<phys>"
DropTableIfExists(db, phys) ==
  IF ~db.tables[phys].exists THEN Ok(db) ELSE DropTable(db, phys)

\* ALTER TABLE "<from>" RENAME TO "<to>": the indexes follow the table
RenameTable(db, from, to) ==
  IF ~db.tables[from].exists \/ NameTaken(db, to) THEN Fail(db)
  ELSE Ok([db EXCEPT !.tables[to] = db.tables[from],
                     !.tables[from] = NoTable,
                     !.indexes = { IF ix.tbl = from THEN [ix EXCEPT !.tbl = to] ELSE ix : ix \in @ }])

\* INSERT INTO "<target>" (<into>) SELECT * FROM "<source>": every source
\* row supplies one value per source column, assigned by position to the
\* listed target columns; the other target columns are NULL
InsertSelectAll(db, target, into, source) ==
  LET src  == db.tables[source]
      dst  == db.tables[target]
      row(r) == [c \in 1..Len(dst.cols) |->
                   LET p == IndexOf(into, dst.cols[c].name)
                   IN IF p = 0 THEN Null ELSE r[p]]
      new  == dst.rows \o [i \in 1..Len(src.rows) |-> Store(dst.cols, row(src.rows[i]))]
  IN IF \/ ~src.exists \/ ~dst.exists
        \/ ~(Range(into) \subseteq Range(DeclNames(dst.cols)))
        \/ Len(into) # Len(src.cols)
        \/ ~RowsValid(db, target, dst.cols, new)
     THEN Fail(db)
     ELSE Ok([db EXCEPT !.tables[target].rows = new])

\* variant: the statements run outside a transaction, a failure keeps what
\* the statements before it did
TransactionAbsent(pre, r) == r

\* db.transaction(closure): SAVEPOINT, and ROLLBACK TO it when the closure
\* throws; the exception is passed on to the caller
Transaction(pre, r) == IF r.ok THEN r ELSE Fail(pre)


\* an injected storage failure: statement number k of the call raises when
\* the environment makes it fail (fault = k); fault = 0 is a healthy backend
Faulty(k, fault, r) == IF fault = k THEN Fail(r.db) ELSE r

\* ------------------------------------------------------------- table store
\* define(table): the catalog row, parsed
Define(db, table) ==
  LET row == db.catalog[table]
  IN IF ~row.exists THEN [exists |-> FALSE, name |-> table, columns |-> <<>>,
                          indexes |-> <<>>, version |-> 0]
     ELSE [exists  |-> TRUE,
           name    |-> table,
           columns |-> ParseColumns(row.columns),
           indexes |-> ParseIndexes(row.indexes),
           version |-> row.version]

\* for(const index of schema.indexes) CREATE INDEX ...
RECURSIVE CreateIndexes(_, _, _, _, _)
CreateIndexes(r, tbl, phys, indexes, suffix) ==
  IF indexes = <<>> \/ ~r.ok THEN r
  ELSE CreateIndexes(
         CreateIndex(r.db, tbl \o "_" \o Join(Head(indexes).fields, Separator) \o suffix,
                     phys, Head(indexes)),
         tbl, phys, Tail(indexes), suffix)

\* create, after the catalog row is inserted: the transaction that creates
\* the table and its indexes
CreateDefinition(db, table, schema) ==
  LET columns == SetId(schema.columns, "ID!")
      tbl     == Tbl(table)
  IN Transaction(db,
       CreateIndexes(CreateTable(db, tbl, MapColumns(columns)),
                     tbl, tbl, schema.indexes, ""))

\* create(table, schema)
Create(db, table, schema) ==
  LET columns == SetId(schema.columns, "ID!")
      ins     == CatalogInsert(db, table, columns, schema.indexes)
  IN IF ~ins.ok THEN ins
     ELSE CreateDefinition(ins.db, table, schema)

\* redefine(table, schema), after define(table) has returned old
RedefineFrom(db, table, schema, old, fault) ==
  LET columns == SetId(schema.columns, "ID")
      tbl     == Tbl(table)
      version == old.version + 1
      newColumns == ColNames(columns)
      common  == SeqFilter(ColNames(old.columns), Range(newColumns))
      s1 == Faulty(1, fault, CreateTable(db, "_" \o tbl, MapColumns(columns)))
      s2 == Faulty(2, fault,
              CreateIndexes(s1, tbl, "_" \o tbl, schema.indexes, "_v" \o ToString(version)))
      s3 == IF common # <<>>
            THEN Then(s2, LAMBDA d : Faulty(3, fault, InsertSelectAll(d, "_" \o tbl, common, tbl)))
            ELSE s2
      s4 == Then(s3, LAMBDA d : Faulty(4, fault, DropTable(d, tbl)))
      s5 == Then(s4, LAMBDA d : Faulty(5, fault, RenameTable(d, "_" \o tbl, tbl)))
      s6 == Then(s5, LAMBDA d : Faulty(6, fault,
                                  CatalogUpdate(d, table, columns, schema.indexes, version)))
  IN IF ~old.exists THEN Create(db, table, schema)
     ELSE IF IsEqual([columns |-> old.columns, indexes |-> old.indexes],
                     [columns |-> columns, indexes |-> schema.indexes])
          THEN Ok(db)
          ELSE Transaction(db, s6)

\* redefine(table, schema)
Redefine(db, table, schema, fault) ==
  RedefineFrom(db, table, schema, Define(db, table), fault)

\* drop(table)
Drop(db, table) ==
  Transaction(db, Then(CatalogDelete(db, table), LAMBDA d : DropTable(d, Tbl(table))))


\* the characters of the names and prefixes that occur
Chars(text) ==
  IF \E chars \in TenantChars : TextOf(chars) = text
  THEN CHOOSE chars \in TenantChars : TextOf(chars) = text
  ELSE WordChars(text)

\* LIKE folds the case of the ASCII letters
Lower(c) == CASE c = "T" -> "t" [] c = "U" -> "u" [] c = "W" -> "w" [] OTHER -> c

\* text LIKE pattern: % stands for any characters, _ for any one character
RECURSIVE Like(_, _)
Like(text, pattern) ==
  IF pattern = <<>> THEN text = <<>>
  ELSE IF Head(pattern) = "%"
       THEN \E k \in 0..Len(text) : Like(SubSeq(text, k + 1, Len(text)), Tail(pattern))
  ELSE /\ text # <<>>
       /\ Head(pattern) = "_" \/ Lower(Head(pattern)) = Lower(Head(text))
       /\ Like(Tail(text), Tail(pattern))

\* the names of the catalog rows WHERE name LIKE prefix + '%'
NamesLike(db, prefix) ==
  { n \in DOMAIN db.catalog :
      db.catalog[n].exists /\ Like(Chars(n), Chars(prefix) \o <<"%">>) }

\* list(prefix): the prefix is Absent when the call gives none
List(db, prefix) ==
  { Define(db, n) : n \in IF prefix = Absent \/ prefix = ""
                          THEN { m \in DOMAIN db.catalog : db.catalog[m].exists }
                          ELSE NamesLike(db, prefix) }

\* for(let tbl of tables) DROP TABLE IF EXISTS
RECURSIVE DropEach(_, _)
DropEach(r, tables) ==
  IF tables = {} \/ ~r.ok THEN r
  ELSE LET n == CHOOSE m \in tables : TRUE
       IN DropEach(DropTableIfExists(r.db, Tbl(n)), tables \ {n})

\* DELETE FROM "<schemaTable>" WHERE name LIKE $1
CatalogDeleteLike(db, prefix) ==
  Ok([db EXCEPT !.catalog = [n \in DOMAIN db.catalog |->
        IF n \in NamesLike(db, prefix) THEN NoEntry ELSE db.catalog[n]]])

\* dropPrefixed(prefix)
DropPrefixed(db, prefix) ==
  Transaction(db, DropEach(CatalogDeleteLike(db, prefix), NamesLike(db, prefix)))

\* DELETE FROM "<schemaTable>" WHERE name = $1 OR name = $2 ...: without a
\* name the statement ends at WHERE and cannot be prepared
CatalogDeleteMany(db, tables) ==
  IF tables = <<>> THEN Fail(db)
  ELSE Ok([db EXCEPT !.catalog = [n \in DOMAIN db.catalog |->
             IF n \in Range(tables) THEN NoEntry ELSE db.catalog[n]]])

\* dropMany(tables)
DropMany(db, tables) ==
  Transaction(db, DropEach(CatalogDeleteMany(db, tables), Range(tables)))

\* ------------------------------------------------------ row-level statements
Entry(key, val) == [key |-> key, val |-> val]

Keys(map) == [i \in 1..Len(map) |-> map[i].key]

ValueOf(map, key) == map[IndexOf(Keys(map), key)].val

IdPos(cols) == IndexOf(DeclNames(cols), "id")

\* WHERE id = $n on the TEXT column id: the parameter takes the affinity of
\* the column, NULL matches nothing
MatchesId(cols, row, id) ==
  /\ IdPos(cols) # 0
  /\ Bind(id).k # "null"
  /\ row[IdPos(cols)] = Affinity("TEXT", Bind(id))

RECURSIVE SelectRows(_, _, _)
SelectRows(cols, rows, id) ==
  IF rows = <<>> THEN <<>>
  ELSE IF MatchesId(cols, Head(rows), id)
       THEN <<Head(rows)>> \o SelectRows(cols, Tail(rows), id)
       ELSE SelectRows(cols, Tail(rows), id)

RECURSIVE RemoveRows(_, _, _)
RemoveRows(cols, rows, id) ==
  IF rows = <<>> THEN <<>>
  ELSE IF MatchesId(cols, Head(rows), id)
       THEN RemoveRows(cols, Tail(rows), id)
       ELSE <<Head(rows)>> \o RemoveRows(cols, Tail(rows), id)

\* INSERT INTO "<phys>" (keys) VALUES ($1, ...) RETURNING *
InsertRow(db, phys, map) ==
  LET t   == db.tables[phys]
      row == Store(t.cols,
               [c \in 1..Len(t.cols) |->
                  IF t.cols[c].name \in Range(Keys(map))
                  THEN Bind(ValueOf(map, t.cols[c].name)) ELSE Null])
      new == Append(t.rows, row)
  IN IF \/ ~t.exists
        \/ Len(map) = 0
        \/ ~(Range(Keys(map)) \subseteq Range(DeclNames(t.cols)))
        \/ ~RowsValid(db, phys, t.cols, new)
     THEN Fail(db)
     ELSE Ret([db EXCEPT !.tables[phys].rows = new], <<row>>)

\* variant: UPDATE without its WHERE clause, the rows returned being those
\* of the id
UpdateRowsAll(db, phys, map, id) ==
  LET t      == db.tables[phys]
      upd(r) == Store(t.cols,
                  [c \in 1..Len(t.cols) |->
                     IF t.cols[c].name \in Range(Keys(map))
                     THEN Bind(ValueOf(map, t.cols[c].name)) ELSE r[c]])
      new    == [i \in 1..Len(t.rows) |-> upd(t.rows[i])]
      hit    == SelectRows(t.cols, t.rows, id)
  IN IF \/ ~t.exists
        \/ Len(map) = 0
        \/ ~(Range(Keys(map)) \subseteq Range(DeclNames(t.cols)))
        \/ ~RowsValid(db, phys, t.cols, new)
     THEN Fail(db)
     ELSE Ret([db EXCEPT !.tables[phys].rows = new],
              [i \in 1..Len(hit) |-> upd(hit[i])])

\* UPDATE "<phys>" SET k1 = $1, ... WHERE id = $n RETURNING *
UpdateRows(db, phys, map, id) ==
  LET t      == db.tables[phys]
      upd(r) == Store(t.cols,
                  [c \in 1..Len(t.cols) |->
                     IF t.cols[c].name \in Range(Keys(map))
                     THEN Bind(ValueOf(map, t.cols[c].name)) ELSE r[c]])
      new    == [i \in 1..Len(t.rows) |->
                   IF MatchesId(t.cols, t.rows[i], id) THEN upd(t.rows[i]) ELSE t.rows[i]]
      hit    == SelectRows(t.cols, t.rows, id)
  IN IF \/ ~t.exists
        \/ Len(map) = 0
        \/ ~(Range(Keys(map)) \subseteq Range(DeclNames(t.cols)))
        \/ ~RowsValid(db, phys, t.cols, new)
     THEN Fail(db)
     ELSE Ret([db EXCEPT !.tables[phys].rows = new],
              [i \in 1..Len(hit) |-> upd(hit[i])])

\* DELETE FROM "<phys>" WHERE id = $1
DeleteRows(db, phys, id) ==
  LET t == db.tables[phys]
  IN IF ~t.exists THEN Fail(db)
     ELSE Ok([db EXCEPT !.tables[phys].rows = RemoveRows(t.cols, t.rows, id)])

\* SELECT * FROM "<phys>" WHERE id = $1
SelectById(db, phys, id) ==
  LET t == IF phys \in DOMAIN db.tables THEN db.tables[phys] ELSE NoTable
  IN IF ~t.exists THEN Fail(db) ELSE Ret(db, SelectRows(t.cols, t.rows, id))

\* client.one: the first row, nothing when there is none, an error when
\* there are several
ClientOne(r) ==
  IF ~r.ok THEN r
  ELSE IF Len(r.rows) > 1 THEN Fail(r.db)
  ELSE r


\* ------------------------------------------------------------------- table
\* JSON.stringify of a value that is not a scalar: a text that is not
\* numeric and that JSON.parse turns back into the value
JsonBase == 100
JsonText(v) == Str(0 - JsonBase - v.n)

\* does the decimal text of n (n < 100) contain the digit 1
HasDigitOne(n) == n >= 0 /\ (n % 10 = 1 \/ (n \div 10) % 10 = 1)

\* #encode: keep the keys that are columns of the schema; scalars and
\* null/undefined pass through, everything else is serialized
RECURSIVE Encode(_, _)
Encode(columns, value) ==
  IF value = <<>> THEN <<>>
  ELSE LET e == Head(value)
       IN IF e.key \notin Range(ColNames(columns)) THEN Encode(columns, Tail(value))
          ELSE IF e.val.k \in {"str", "num", "bool"} \/ IsNullish(e.val)
               THEN <<e>> \o Encode(columns, Tail(value))
               ELSE <<Entry(e.key, JsonText(e.val))>> \o Encode(columns, Tail(value))

\* new Date(text) of a text that is not a date string, as the JSON text of
\* a date with its quotes is
InvalidDate == Val("date", 0 - 1)

\* the conversion #decode applies to a value that is not null: a Date is
\* new Date(Number.parseInt(text) || text)
DecodeValue(type, v) ==
  CASE type = "Boolean" -> Bool(IF v.k = "num" THEN v.n # 0 /\ HasDigitOne(v.n)
                                ELSE HasDigitOne(v.n))
    [] type \in {"String", "ID"} -> Str(v.n)
    [] type \in {"Int", "Float"} -> IF v.k = "str" /\ v.n < 0 THEN NaN ELSE Num(v.n)
    [] type = "Date" -> IF v.n > 0 THEN Val("date", v.n) ELSE InvalidDate
    [] type = "JSON" -> IF v.k = "str" /\ v.n >= 0 THEN Num(v.n)
                        ELSE IF v.k = "str" /\ v.n <= 0 - JsonBase
                             THEN Val("obj", 0 - JsonBase - v.n)
                             ELSE v
    [] OTHER -> Undef

\* #decode of one row of a physical table with declarations cols
RECURSIVE DecodeFrom(_, _, _, _)
DecodeFrom(columns, cols, row, c) ==
  IF c > Len(cols) THEN <<>>
  ELSE LET i == IndexOf(ColNames(columns), cols[c].name)
       IN IF i = 0 THEN DecodeFrom(columns, cols, row, c + 1)
          ELSE <<Entry(cols[c].name,
                       IF row[c].k = "null" THEN Null
                       ELSE DecodeValue(columns[i].type, row[c]))>>
               \o DecodeFrom(columns, cols, row, c + 1)

Decode(columns, cols, row) == DecodeFrom(columns, cols, row, 1)

DecodeAll(columns, cols, rows) ==
  [i \in 1..Len(rows) |-> Decode(columns, cols, rows[i])]

\* the outcome of a table operation: ret holds the decoded records returned
Out(r, ret) == [ok |-> r.ok, db |-> r.db, ret |-> IF r.ok THEN ret ELSE <<>>]

\* mapToInsert({ id, ...encoded }): id comes first, an id key of the encoded
\* input replaces the value
InsertMap(id, encoded) ==
  <<Entry("id", IF "id" \in Range(Keys(encoded)) THEN ValueOf(encoded, "id") ELSE id)>>
  \o SelectSeq(encoded, LAMBDA e : e.key # "id")

\* add(input), id being the value maylily() returned
Add(db, table, id, input) ==
  LET schema == Define(db, table)
      r == ClientOne(InsertRow(db, Tbl(table), InsertMap(id, Encode(schema.columns, input))))
  IN Out(r, DecodeAll(schema.columns, r.db.tables[Tbl(table)].cols, r.rows))

\* put(id, input)
Put(db, table, id, input) ==
  LET schema == Define(db, table)
      r == ClientOne(UpdateRows(db, Tbl(table), Encode(schema.columns, input), id))
  IN Out(r, DecodeAll(schema.columns, r.db.tables[Tbl(table)].cols, r.rows))

\* del(id)
Del(db, table, id) == Out(DeleteRows(db, Tbl(table), id), <<>>)

\* one(id)
One(db, table, id) ==
  LET schema == Define(db, table)
      r == ClientOne(SelectById(db, Tbl(table), id))
  IN Out(r, DecodeAll(schema.columns, r.db.tables[Tbl(table)].cols, r.rows))

\* all()
All(db, table) ==
  LET schema == Define(db, table)
      t == db.tables[Tbl(table)]
  IN DecodeAll(schema.columns, t.cols, t.rows)

\* one operation of a batch
BatchOp(type, key, value) == [type |-> type, key |-> key, value |-> value]

\* the loop of batch(ops) inside the transaction
RECURSIVE BatchLoop(_, _, _, _)
BatchLoop(r, table, columns, ops) ==
  IF ops = <<>> \/ ~r.ok THEN r
  ELSE LET op == Head(ops)
           next == IF op.type = "put"
                   THEN UpdateRows(r.db, Tbl(table), Encode(columns, op.value), op.key)
                   ELSE IF op.type = "del"
                        THEN DeleteRows(r.db, Tbl(table), op.key)
                        ELSE r
       IN BatchLoop(next, table, columns, Tail(ops))

\* variant: the operations run one by one outside a transaction
BatchUnguarded(db, table, ops) ==
  IF Len(ops) = 0 THEN Out(Ok(db), <<>>)
  ELSE Out(BatchLoop(Ok(db), table, Define(db, table).columns, ops), <<>>)

\* batch(ops)
Batch(db, table, ops) ==
  IF Len(ops) = 0 THEN Out(Ok(db), <<>>)
  ELSE Out(Transaction(db, BatchLoop(Ok(db), table, Define(db, table).columns, ops)), <<>>)


\* ------------------------------------------------------------------ queries
\* A JavaScript object (a Query, a QueryExpression) is the sequence of its
\* entries in key order.  An entry is a node [key, kind, val, subs]:
\*   kind "lit": the value is the scalar val
\*   kind "obj": the value is the object with the entries subs
\*   kind "arr": the value is the array with the elements subs, whose keys
\*               are the indexes "0", "1", ...
Lit(key, val)   == [key |-> key, kind |-> "lit", val |-> val,  subs |-> <<>>]
Obj(key, subs)  == [key |-> key, kind |-> "obj", val |-> Null, subs |-> subs]
Arr(key, elems) == [key |-> key, kind |-> "arr", val |-> Null,
                    subs |-> [i \in 1..Len(elems) |-> [elems[i] EXCEPT !.key = ToString(i - 1)]]]

\* the predicate text, kept as the tree of its pieces:
\*   cmp     "<a> <op> <b>"          not    "NOT (<sub>)"
\*   paren   "(<sub>)"               join   the subs joined by op
\*   objtext "[object Object]"       empty  ""
Text(t, a, op, b, subs) == [t |-> t, a |-> a, op |-> op, b |-> b, subs |-> subs]
TCmp(a, op, b)   == Text("cmp", a, op, b, <<>>)
TNot(sub)        == Text("not", "", "", "", <<sub>>)
TParen(sub)      == Text("paren", "", "", "", <<sub>>)
TJoin(op, subs)  == IF Len(subs) = 0 THEN Text("empty", "", "", "", <<>>)
                    ELSE IF Len(subs) = 1 THEN subs[1]
                    ELSE Text("join", "", op, "", subs)
TObjText         == Text("objtext", "", "", "", <<>>)
TEmpty           == Text("empty", "", "", "", <<>>)

Placeholder(n) == "$" \o ToString(n)

\* the outcome of compileExpr / compileQuery: ok = FALSE is a MalformedError
Compiled(text, params) == [ok |-> TRUE, query |-> text, params |-> params]
Malformed              == [ok |-> FALSE, query |-> TEmpty, params |-> <<>>]

\* /^\$?\w+$/ on the keys that occur in the queries of this model
Operators  == {"$eq", "$ne", "$gt", "$lt", "$gte", "$lte", "$in", "$nin",
               "$not", "$all", "$none", "$or", "$and", "$nor"}
FieldNames == {"f", "g", "x", "y", "z", "w", "id"}
ArrayKeys  == {"0", "1", "2"}
ValidField(field) == field \in FieldNames \cup Operators \cup ArrayKeys

\* the value a statement parameter is given: the operand itself; an operand
\* that is an object or an array is a value the driver cannot bind
Unbindable == Val("object", 0)
ParamOf(e) == IF e.kind = "lit" THEN e.val ELSE Unbindable

\* `%${String(list).replace(/[%_@]/g, '@$1')}%`, the pattern $in and $nin
\* bind (its text is not modelled further)
Pattern == Val("pattern", 0)

\* `${field} ${expr == null ? 'is' : '='} $${vars.push(expr)}`
Equality(field, val, vars, null, other) ==
  Compiled(TCmp(field, IF IsNullish(val) THEN null ELSE other,
                Placeholder(Len(vars) + 1)),
           Append(vars, val))

Relation(field, op, val, vars) ==
  Compiled(TCmp(field, op, Placeholder(Len(vars) + 1)), Append(vars, val))

RECURSIVE CompileExpr(_, _, _), CompileQuery(_), CompileEntries(_, _, _), CompileList(_)

\* compileExpr(field, expr, vars): the text of the expression and vars with
\* the parameters pushed
CompileExpr(field, expr, vars) ==
  IF ~ValidField(field) THEN Malformed
  ELSE IF expr.kind = "lit" THEN Equality(field, expr.val, vars, "is", "=")
  ELSE IF Len(expr.subs) = 0 THEN Compiled(TEmpty, vars)
  ELSE IF Len(expr.subs) > 1
       THEN LET sub == CompileQuery(expr.subs)
            IN IF ~sub.ok THEN Malformed
               ELSE Compiled(sub.query, vars \o sub.params)
  ELSE LET e   == expr.subs[1]
           key == e.key
           val == ParamOf(e)
       IN CASE key = "$eq"  -> Equality(field, val, vars, "is", "=")
            [] key = "$ne"  -> Equality(field, val, vars, "is not", "!=")
            [] key = "$gt"  -> Relation(field, ">", val, vars)
            [] key = "$lt"  -> Relation(field, "<", val, vars)
            [] key = "$gte" -> Relation(field, ">=", val, vars)
            [] key = "$lte" -> Relation(field, "<=", val, vars)
            [] key = "$in"  -> Relation(field, "LIKE", Pattern, vars)
            [] key = "$nin" -> Relation(field, "NOT LIKE", Pattern, vars)
            [] key = "$not" ->
                 LET sub == CompileExpr(key, e, vars)
                 IN IF ~sub.ok THEN Malformed
                    ELSE Compiled(TNot(sub.query), sub.params)
            [] key \in {"$all", "$none"} -> Malformed
            [] key \in {"$or", "$and", "$nor"} -> Malformed
            [] OTHER ->
                 IF e.kind = "lit" /\ e.val # Null
                 THEN Equality(field, e.val, vars, "is", "=")
                 ELSE CompileExpr(key, e, vars)

\* query[key].map(q => `(${compileQuery(q)})`): every sub-query is compiled,
\* and the object compileQuery returned is put into the template string
CompileList(list) ==
  IF list = <<>> THEN [ok |-> TRUE, texts |-> <<>>]
  ELSE LET head == CompileQuery(Head(list).subs)
           rest == CompileList(Tail(list))
       IN IF ~head.ok \/ ~rest.ok THEN [ok |-> FALSE, texts |-> <<>>]
          ELSE [ok |-> TRUE, texts |-> <<TParen(TObjText)>> \o rest.texts]

\* the loop of compileQuery over the keys of the query
CompileEntries(entries, vars, statements) ==
  IF entries = <<>>
  THEN Compiled(TJoin(" AND ", [i \in 1..Len(statements) |-> TParen(statements[i])]), vars)
  ELSE LET e == Head(entries)
       IN IF e.kind = "lit" /\ e.val = Undef
          THEN CompileEntries(Tail(entries), vars, statements)
          ELSE IF e.key \in {"$or", "$and", "$nor"}
          THEN LET subs == CompileList(e.subs)
                   text == TJoin(IF e.key = "$and" THEN " AND " ELSE " OR ", subs.texts)
               IN IF ~subs.ok THEN Malformed
                  ELSE CompileEntries(Tail(entries), vars,
                         Append(statements, IF e.key = "$nor" THEN TNot(text) ELSE text))
          ELSE LET stmt == CompileExpr(e.key, e, vars)
               IN IF ~stmt.ok THEN Malformed
                  ELSE CompileEntries(Tail(entries), stmt.params,
                         IF stmt.query.t = "empty" THEN statements
                         ELSE Append(statements, stmt.query))

\* compileQuery(query)
CompileQuery(query) == CompileEntries(query, <<>>, <<>>)

\* -------------------------------------------- the predicate run by SQLite
\* a token that starts with $ is a statement parameter
IsParam(token) == token \in Operators \/ token \in { Placeholder(n) : n \in 1..9 }

RECURSIVE ParamTokens(_), ParamTokensOf(_)
\* the parameter tokens of a text in the order they are written
ParamTokens(text) ==
  CASE text.t = "cmp" -> (IF IsParam(text.a) THEN <<text.a>> ELSE <<>>) \o <<text.b>>
    [] text.t \in {"not", "paren", "join"} -> ParamTokensOf(text.subs)
    [] OTHER -> <<>>

ParamTokensOf(texts) ==
  IF texts = <<>> THEN <<>> ELSE ParamTokens(Head(texts)) \o ParamTokensOf(Tail(texts))

RECURSIVE Distinct(_)
Distinct(s) ==
  IF s = <<>> THEN <<>>
  ELSE LET front == Distinct(SubSeq(s, 1, Len(s) - 1))
       IN IF s[Len(s)] \in Range(front) THEN front ELSE Append(front, s[Len(s)])

\* SQLite gives every parameter name the next free index at its first
\* occurrence; the driver binds params[i] to index i
Slots(text) == Distinct(ParamTokens(text))

\* the statement can be prepared: its columns exist and no piece is empty
\* or the text of an object
RECURSIVE Prepares(_, _)
Prepares(text, columns) ==
  CASE text.t = "cmp" -> IsParam(text.a) \/ text.a \in columns
    [] text.t \in {"not", "paren", "join"} ->
         \A i \in 1..Len(text.subs) : Prepares(text.subs[i], columns)
    [] OTHER -> FALSE

\* every parameter has an index to bind to and is a value the driver binds
Binds(text, params) ==
  /\ Len(params) <= Len(Slots(text))
  /\ \A i \in 1..Len(params) : params[i].k \in {"null", "undef", "num", "str", "bool"}

Operand(token, text, params, row) ==
  IF IsParam(token)
  THEN LET i == IndexOf(Slots(text), token)
       IN IF i <= Len(params) THEN Bind(params[i]) ELSE Null
  ELSE ValueOf(row, token)

\* three-valued logic: "T", "F" and "N" (NULL)
Tri(b) == IF b THEN "T" ELSE "F"

SqlNot(v) == IF v = "N" THEN "N" ELSE IF v = "T" THEN "F" ELSE "T"

SqlCompare(a, op, b) ==
  CASE op = "is"     -> Tri(a = b)
    [] op = "is not" -> Tri(a # b)
    [] op \in {"=", "!=", ">", "<", ">=", "<="} /\ (a.k = "null" \/ b.k = "null") -> "N"
    [] op = "="  -> Tri(a = b)
    [] op = "!=" -> Tri(a # b)
    [] op = ">"  /\ a.k = "num" /\ b.k = "num" -> Tri(a.n > b.n)
    [] op = "<"  /\ a.k = "num" /\ b.k = "num" -> Tri(a.n < b.n)
    [] op = ">=" /\ a.k = "num" /\ b.k = "num" -> Tri(a.n >= b.n)
    [] op = "<=" /\ a.k = "num" /\ b.k = "num" -> Tri(a.n <= b.n)

RECURSIVE SqlEval(_, _, _, _)
SqlEval(text, whole, params, row) ==
  CASE text.t = "cmp" ->
         SqlCompare(Operand(text.a, whole, params, row), text.op,
                    Operand(text.b, whole, params, row))
    [] text.t = "not" -> SqlNot(SqlEval(text.subs[1], whole, params, row))
    [] text.t = "paren" -> SqlEval(text.subs[1], whole, params, row)
    [] text.t = "join" ->
         LET vs == { SqlEval(text.subs[i], whole, params, row) : i \in 1..Len(text.subs) }
         IN IF text.op = " AND "
            THEN IF "F" \in vs THEN "F" ELSE IF "N" \in vs THEN "N" ELSE "T"
            ELSE IF "T" \in vs THEN "T" ELSE IF "N" \in vs THEN "N" ELSE "F"

\* search({ query }) on a table that holds the one row: "selected" when the
\* row is returned, "rejected" when it is not, "raised" when compileQuery or
\* the statement raises
SearchOne(compiled, row) ==
  IF ~compiled.ok THEN "raised"
  ELSE IF compiled.query.t = "empty" THEN "selected"
  ELSE IF ~Prepares(compiled.query, Range(Keys(row))) \/ ~Binds(compiled.query, compiled.params)
       THEN "raised"
  ELSE IF SqlEval(compiled.query, compiled.query, compiled.params, row) = "T"
       THEN "selected" ELSE "rejected"

\* ------------------------------------------------------------------ search
\* the options of search: query is given or not, sort is the sequence of
\* the whitespace-separated tokens of the sort string (word: the token
\* passes /^[+-]?\w+$/), skip and limit are numbers or undefined
SortToken(sign, name, word) == [sign |-> sign, name |-> name, word |-> word]
SearchOptions(given, query, sort, skip, limit) ==
  [given |-> given, query |-> query, sort |-> sort, skip |-> skip, limit |-> limit]

\* if(v): undefined, null, 0 and NaN are not taken
Truthy(v) == ~IsNullish(v) /\ v # Num(0) /\ v # NaN

\* a piece appended to the statement: lead, it starts with a space; word,
\* it ends with a letter, a digit or _
Piece(lead, word) == [lead |-> lead, word |-> word]

\* two pieces written one after the other are read as they were written
\* unless the first ends and the second starts within a word
Lexes(pieces) ==
  \A i \in 2..Len(pieces) : pieces[i - 1].word => pieces[i].lead

\* the row of a physical table as the map from column name to value
RowMap(cols, row) == [c \in 1..Len(cols) |-> Entry(cols[c].name, row[c])]

\* the order of SQLite on the values of a column: NULL, then the numbers,
\* then the texts (texts of one character)
SqlRank(v) == IF v.k = "null" THEN 0 ELSE IF v.k = "num" THEN 1 ELSE 2
SqlBefore(a, b) ==
  \/ SqlRank(a) < SqlRank(b)
  \/ (SqlRank(a) = SqlRank(b) /\ SqlRank(a) # 0 /\ a.n < b.n)

\* row a is before row b under ORDER BY tokens
RECURSIVE RowBefore(_, _, _, _)
RowBefore(cols, tokens, a, b) ==
  IF tokens = <<>> THEN FALSE
  ELSE LET c  == IndexOf(DeclNames(cols), Head(tokens).name)
           lo == IF Head(tokens).sign = "-" THEN b[c] ELSE a[c]
           hi == IF Head(tokens).sign = "-" THEN a[c] ELSE b[c]
       IN \/ SqlBefore(lo, hi)
          \/ (~SqlBefore(hi, lo) /\ RowBefore(cols, Tail(tokens), a, b))

\* ORDER BY: rows that the tokens do not tell apart stay in table order
RECURSIVE OrderBy(_, _, _)
OrderBy(cols, tokens, rows) ==
  IF rows = <<>> THEN <<>>
  ELSE With(OrderBy(cols, tokens, SubSeq(rows, 1, Len(rows) - 1)),
         LAMBDA rest :
           LET r     == rows[Len(rows)]
               after == { i \in 1..Len(rest) : RowBefore(cols, tokens, r, rest[i]) }
               at    == IF after = {} THEN Len(rest) + 1
                        ELSE CHOOSE i \in after : \A j \in after : i <= j
           IN SubSeq(rest, 1, at - 1) \o <<r>> \o SubSeq(rest, at, Len(rest)))

\* LIMIT n OFFSET m on a sequence of rows: a negative n is no limit
Window(rows, n, m) ==
  LET from == IF m < 0 THEN 0 ELSE m
      to   == IF n < 0 \/ from + n > Len(rows) THEN Len(rows) ELSE from + n
  IN SubSeq(rows, from + 1, to)

\* search(options), compiled being what compileQuery made of the query
SearchCompiled(db, table, search, compiled) ==
  LET schema   == Define(db, table)
      t        == db.tables[Tbl(table)]
      where    == compiled.query
      tokens   == SelectSeq(search.sort, LAMBDA tok : tok.word)
      limited  == Truthy(search.limit)
      skipped  == Truthy(search.skip)
      params1  == IF limited THEN Append(compiled.params, search.limit)
                  ELSE compiled.params
      limitTok == Placeholder(Len(params1))
      params   == IF skipped THEN Append(params1, search.skip) ELSE params1
      skipTok  == Placeholder(Len(params))
      pieces   == <<Piece(FALSE, FALSE)>>
                  \o (IF where.t # "empty" THEN <<Piece(TRUE, FALSE)>> ELSE <<>>)
                  \o (IF tokens # <<>> THEN <<Piece(TRUE, TRUE)>> ELSE <<>>)
                  \o (IF limited THEN <<Piece(TRUE, TRUE)>> ELSE <<>>)
                  \o (IF skipped /\ ~limited THEN <<Piece(FALSE, TRUE)>> ELSE <<>>)
                  \o (IF skipped THEN <<Piece(TRUE, TRUE)>> ELSE <<>>)
      slots    == Distinct(ParamTokens(where)
                           \o (IF limited THEN <<limitTok>> ELSE <<>>)
                           \o (IF skipped THEN <<skipTok>> ELSE <<>>))
      bound(tok) == IF IndexOf(slots, tok) <= Len(params)
                    THEN Bind(params[IndexOf(slots, tok)]) ELSE Null
      n        == IF limited THEN bound(limitTok) ELSE Num(0 - 1)
      m        == IF skipped THEN bound(skipTok) ELSE Num(0)
      prepares == /\ t.exists
                  /\ Lexes(pieces)
                  /\ where.t = "empty" \/ Prepares(where, Range(DeclNames(t.cols)))
                  /\ \A i \in 1..Len(tokens) : tokens[i].name \in Range(DeclNames(t.cols))
      binds    == /\ Len(params) <= Len(slots)
                  /\ \A i \in 1..Len(params) :
                       params[i].k \in {"null", "undef", "num", "str", "bool"}
                  /\ n.k = "num" /\ m.k = "num"
      matching == SelectSeq(t.rows, LAMBDA row :
                    \/ where.t = "empty"
                    \/ SqlEval(where, where, compiled.params, RowMap(t.cols, row)) = "T")
  IN IF ~compiled.ok \/ ~prepares \/ ~binds THEN Out(Fail(db), <<>>)
     ELSE With(matching, LAMBDA found :
            Out(Ok(db), DecodeAll(schema.columns, t.cols,
                                  Window(OrderBy(t.cols, tokens, found), n.n, m.n))))

\* search(options)
Search(db, table, search) ==
  With(IF search.given THEN CompileQuery(search.query) ELSE Compiled(TEmpty, <<>>),
       LAMBDA compiled : SearchCompiled(db, table, search, compiled))

\* the statement text search builds, kept as its parts: the entries written
\* after SELECT, the predicate after WHERE, the names and directions after
\* ORDER BY, and the LIMIT and OFFSET parts; the projection of the options
\* is given or not
Projection(given, entries) == [given |-> given, entries |-> entries]

Statement(projection, search) ==
  LET compiled == IF search.given THEN CompileQuery(search.query) ELSE Compiled(TEmpty, <<>>)
      tokens   == SelectSeq(search.sort, LAMBDA tok : tok.word)
      limited  == Truthy(search.limit)
      skipped  == Truthy(search.skip)
      params1  == IF limited THEN Append(compiled.params, search.limit)
                  ELSE compiled.params
      params   == IF skipped THEN Append(params1, search.skip) ELSE params1
  IN [ok     |-> compiled.ok,
      select |-> IF ~projection.given \/ projection.entries = <<>> THEN <<"*">>
                 ELSE projection.entries,
      where  |-> compiled.query,
      order  |-> [i \in 1..Len(tokens) |->
                    [name |-> tokens[i].name,
                     dir  |-> IF tokens[i].sign = "-" THEN " DESC"
                              ELSE IF tokens[i].sign = "+" THEN " ASC" ELSE ""]],
      limit  |-> IF limited THEN <<" LIMIT ", Placeholder(Len(params1))>>
                 ELSE IF skipped THEN <<"LIMIT -1">> ELSE <<>>,
      offset |-> IF skipped THEN <<" OFFSET ", Placeholder(Len(params))>> ELSE <<>>,
      params |-> IF compiled.ok THEN params ELSE <<>>]

\* ------------------------------------------------- the in-memory evaluator
\* a JavaScript object value with the properties props
JObj(props) == [k |-> "object", n |-> 0, props |-> props]
\* a JavaScript array value with the elements elems
JArr(elems) == [k |-> "array", n |-> 0, elems |-> elems]
\* the empty string
Empty == Str(0)

\* value[key]: "throw" stands for the TypeError of reading a property of
\* null or undefined
CanRead(value) == ~IsNullish(value)
Get(value, key) ==
  IF value.k = "object" /\ key \in Range(Keys(value.props)) THEN ValueOf(value.props, key)
  ELSE Undef

\* Number(v) for the numbers, the booleans, null and the empty string; an
\* undefined operand makes every relation false
JsNumber(v) == IF v.k = "null" THEN 0 ELSE v.n
JsNumeric(v) == v.k \in {"num", "null", "bool"} \/ v = Empty

\* value instanceof Array ? value.length : value
Measure(value) == IF value.k = "array" THEN Num(Len(value.elems)) ELSE value

\* Boolean(v)
JsTruthy(v) == ~IsNullish(v) /\ v \notin {Num(0), NaN, Bool(FALSE), Empty}

\* array.find(v => Test(v)): the first element that passes, or undefined
Find(elems, Test(_)) ==
  IF \E i \in 1..Len(elems) : Test(elems[i])
  THEN elems[CHOOSE i \in 1..Len(elems) :
               Test(elems[i]) /\ \A j \in 1..(i - 1) : ~Test(elems[j])]
  ELSE Undef

\* list.includes(v) for the list operand of the node e
Includes(e, v) == \E i \in 1..Len(e.subs) : e.subs[i].kind = "lit" /\ e.subs[i].val = v

\* isEqual(query operand, value) for scalar values
JsEqual(e, value) == e.kind = "lit" /\ e.val = value

JsNot(r) == IF r = "throw" THEN "throw" ELSE IF r = "true" THEN "false" ELSE "true"
JsBool(b) == IF b THEN "true" ELSE "false"

\* query operand > value and its siblings
JsRelation(e, value, Rel(_, _)) ==
  JsBool(e.kind = "lit" /\ JsNumeric(e.val) /\ JsNumeric(Measure(value))
         /\ Rel(JsNumber(e.val), JsNumber(Measure(value))))

RECURSIVE ResolveExpr(_, _), ResolveQuery(_, _), ResolveAny(_, _), ResolveEvery(_, _)

\* resolveExpr(query, value), query being the value of the node
ResolveExpr(query, value) ==
  IF query.kind = "lit" /\ IsNullish(query.val) THEN "throw"
  ELSE IF Len(query.subs) = 0 THEN "true"
  ELSE IF Len(query.subs) > 1 THEN ResolveQuery(query.subs, value)
  ELSE LET e == query.subs[1]
       IN CASE e.key = "$eq"  -> JsBool(JsEqual(e, value))
            [] e.key = "$ne"  -> JsBool(~JsEqual(e, value))
            [] e.key = "$gt"  -> JsRelation(e, value, LAMBDA a, b : a > b)
            [] e.key = "$lt"  -> JsRelation(e, value, LAMBDA a, b : a < b)
            [] e.key = "$gte" -> JsRelation(e, value, LAMBDA a, b : a >= b)
            [] e.key = "$lte" -> JsRelation(e, value, LAMBDA a, b : a <= b)
            [] e.key = "$in" ->
                 IF e.kind # "arr" THEN "throw"
                 ELSE IF value.k = "array"
                      THEN JsBool(JsTruthy(Find(value.elems, LAMBDA v : Includes(e, v))))
                      ELSE JsBool(Includes(e, value))
            [] e.key = "$nin" ->
                 IF value.k = "array"
                 THEN IF e.kind # "arr" THEN "throw"
                      ELSE JsBool(JsTruthy(Find(value.elems, LAMBDA v : ~Includes(e, v))))
                 ELSE "throw"
            [] e.key = "$not" -> JsNot(ResolveExpr(e, value))
            [] e.key = "$all" ->
                 IF value.k # "array" THEN "false"
                 ELSE IF e.kind # "arr" THEN "throw"
                 ELSE JsBool(~JsTruthy(Find(value.elems, LAMBDA v : ~Includes(e, v))))
            [] e.key = "$none" ->
                 IF value.k # "array" THEN "false"
                 ELSE IF e.kind # "arr" THEN "throw"
                 ELSE JsBool(~JsTruthy(Find(value.elems, LAMBDA v : Includes(e, v))))
            [] e.key \notin Operators ->
                 IF ~CanRead(value) THEN "throw"
                 ELSE IF e.kind = "lit" /\ e.val # Null
                      THEN JsBool(e.val = Get(value, e.key))
                      ELSE ResolveExpr(e, Get(value, e.key))

\* the first sub-query of the list that resolves to true or throws
ResolveAny(list, value) ==
  IF list = <<>> THEN "false"
  ELSE LET r == ResolveQuery(Head(list).subs, value)
       IN IF r = "false" THEN ResolveAny(Tail(list), value) ELSE r

\* the first sub-query of the list that resolves to false or throws
ResolveEvery(list, value) ==
  IF list = <<>> THEN "true"
  ELSE LET r == ResolveQuery(Head(list).subs, value)
       IN IF r = "true" THEN ResolveEvery(Tail(list), value) ELSE r

\* resolveQuery(query, value)
ResolveQuery(query, value) ==
  IF query = <<>> THEN "true"
  ELSE LET e == Head(query)
           rest == ResolveQuery(Tail(query), value)
           this ==
             IF e.kind = "lit" /\ e.val = Undef THEN "true"
             ELSE CASE e.key = "$or" -> ResolveAny(e.subs, value)
                    [] e.key = "$and" ->
                         ResolveEvery(e.subs, value)
                    [] e.key = "$nor" -> JsNot(ResolveAny(e.subs, value))
                    [] OTHER ->
                         IF ~CanRead(value) THEN "throw"
                         ELSE IF e.kind = "lit" /\ e.val # Null
                              THEN JsBool(e.val = Get(value, e.key))
                              ELSE ResolveExpr(e, Get(value, e.key))
       IN IF this = "true" THEN rest ELSE this

\* ------------------------------------------------------------------ inputs
ColX  == Col("x", "Int", TRUE, "Int")
ColY  == Col("y", "String", TRUE, "String")
ColZ  == Col("z", "Boolean", TRUE, "Boolean")
ColW  == Col("w", "String", FALSE, "String!")
ColId == Col("id", "ID", FALSE, "ID!")

SchemaXY   == Schema(<<ColX, ColY>>, <<>>)
SchemaXZ   == Schema(<<ColX, ColZ>>, <<>>)
SchemaXYZ  == Schema(<<ColX, ColY, ColZ>>, <<>>)
SchemaIdXY == Schema(<<ColId, ColX, ColY>>, <<>>)
SchemaYX   == Schema(<<ColY, ColX>>, <<>>)
SchemaUX   == Schema(<<ColX, ColY>>, <<Idx(<<"x">>, TRUE)>>)
SchemaXYW  == Schema(<<ColX, ColY, ColW>>, <<>>)
SchemaBad  == Schema(<<ColX, ColY>>, <<Idx(<<"q">>, FALSE)>>)

Schemas == {SchemaXY, SchemaXZ, SchemaXYZ, SchemaIdXY, SchemaYX, SchemaUX,
            SchemaXYW, SchemaBad}

\* the statements of a migration an injected failure can hit
Faults == 0..6

\* an id a caller makes up, never one the generator hands out
CallerId == Str(0 - 1)

StoredIds(db, table) ==
  LET t == db.tables[Tbl(table)]
  IN IF ~t.exists \/ IdPos(t.cols) = 0 THEN {}
     ELSE { t.rows[i][IdPos(t.cols)] : i \in 1..Len(t.rows) }

IdInputs(db, table) == StoredIds(db, table) \cup {CallerId}

\* the inputs of the add calls that fill the tables of the store
Seeds == { <<Entry("x", Num(1)), Entry("y", Str(0 - 2)), Entry("w", Str(0 - 3))>>,
           <<Entry("x", Num(2))>> }

Partials(db, table) ==
  { <<Entry("x", Num(1)), Entry("y", Str(0 - 2)), Entry("w", Str(0 - 3))>>,
    <<Entry("x", Num(2))>>,
    <<Entry("y", Undef)>>,
    <<Entry("w", Null)>>,
    <<Entry("q", Num(1))>> }
  \cup { <<Entry("id", i), Entry("w", Str(0 - 3))>> : i \in IdInputs(db, table) }

BatchOps(db, table) ==
  { BatchOp("put", i, v) : i \in StoredIds(db, table),
                           v \in { <<Entry("x", Num(2))>>, <<Entry("w", Null)>>,
                                   <<Entry("id", CallerId)>> } }
  \cup { BatchOp("del", i, <<>>) : i \in StoredIds(db, table) }
  \cup { BatchOp("add", CallerId, <<Entry("x", Num(1))>>) }

SeqsUpTo(S, n) == UNION { [1..k -> S] : k \in 0..n }

\* the queries and the record the evaluators are compared on
QueryLits  == {Null, Num(0), Num(1)}
Comparison == {"$eq", "$ne", "$gt", "$lt", "$gte", "$lte"}
Logical    == {"$or", "$and", "$nor"}
OnField(expr) == <<Obj("f", expr)>>
Simple  == { OnField(<<Lit(op, c)>>) : op \in Comparison, c \in QueryLits }
Ranged  == { OnField(<<Lit("$gte", a), Lit("$lte", b)>>) : a, b \in {Num(0), Num(1)} }
Negated == { OnField(<<Obj("$not", <<Lit(op, c)>>)>>) : op \in Comparison, c \in QueryLits }
Plain   == { <<Lit("f", c)>> : c \in QueryLits }
Parts   == { OnField(<<Lit("$eq", Num(1))>>), OnField(<<Lit("$gt", Num(0))>>),
             OnField(<<Lit("$ne", Null)>>) }
Grouped == { <<Arr(g, <<Obj("", a), Obj("", b)>>)>> : g \in Logical, a, b \in Parts }
Nested  == { <<Arr("$and", <<Obj("", q)>>)>> :
               q \in { <<Arr("$or", <<Obj("", a), Obj("", b)>>)>> : a, b \in Parts } }
Queries == {<<>>} \cup Simple \cup Ranged \cup Negated \cup Plain \cup Grouped \cup Nested
Records == { <<Entry("f", v)>> : v \in {Null, Num(0), Num(1)} }

\* the records and the options of the searches
Found == { <<Entry("x", v)>> : v \in {Null, Num(0), Num(1), Num(2)} }
SearchQueries == { <<>>, <<Obj("x", <<Lit("$gte", Num(1))>>)>>,
                   <<Obj("x", <<Lit("$ne", Null)>>)>> }
Sorts == { <<>>, <<SortToken("", "x", TRUE)>>, <<SortToken("-", "x", TRUE)>>,
           <<SortToken("+", "x", TRUE)>>,
           <<SortToken("-", "y", TRUE), SortToken("", "x", TRUE)>> }
Counts == {Undef, Num(0), Num(1), Num(2)}
Searches ==
  { SearchOptions(given, query, sort, skip, limit) :
      given \in BOOLEAN, query \in SearchQueries, sort \in Sorts,
      skip \in Counts, limit \in Counts }

\* the prefixes given to list and dropPrefixed
Prefixes == {Absent, "", "t", "u", "tu", "_", "T", "%"}
ListSchemas == {SchemaXY, SchemaUX}

\* the column types and some values of each type
ColumnTypes == {"Boolean", "String", "Int", "Float", "ID", "Date", "JSON"}
ValuesOf(type) ==
  CASE type = "Boolean" -> {Bool(TRUE), Bool(FALSE)}
    [] type = "String"  -> {Str(0 - 2), Str(5)}
    [] type = "Int"     -> {Num(0), Num(12)}
    [] type = "Float"   -> {Num(0), Num(3)}
    [] type = "ID"      -> {Str(0 - 3), Str(7)}
    [] type = "Date"    -> {Val("date", 1)}
    [] type = "JSON"    -> {Val("obj", 1), Str(0 - 2), Str(5), Num(3), Bool(TRUE)}
SchemaOf(type) == Schema(<<Col("v", type, TRUE, type)>>, <<>>)

\* ------------------------------------------------------- type declarations
\* baseScalars and the names of baseSchemas
ReservedTypeNames ==
  {"Boolean", "String", "Int", "Float", "ID",
   "Date", "JSON", "Void", "Operation", "SearchOptions"}

\* a declared field: its key, the wrappers of its type from the outermost
\* inwards, and the name of the type they wrap
Field(key, wraps, name) == [key |-> key, wraps |-> wraps, name |-> name]

ObjType(name, fields) == [name |-> name, fields |-> fields]

\* a declaration: the object types it defines and the names of its stubs
Declaration(types, stubs) == [types |-> types, stubs |-> stubs]

\* while(isWrappingType(type)): '!' is appended for a GraphQLNonNull, the
\* brackets are put around for a GraphQLList
RECURSIVE Wrap(_, _)
Wrap(def, wraps) ==
  IF wraps = <<>> THEN def
  ELSE Wrap(IF Head(wraps) = "NonNull" THEN Append(def, "!")
            ELSE <<"[">> \o def \o <<"]">>,
            Tail(wraps))

\* parseGqlObj(obj)
ParseGqlObj(obj) ==
  [name   |-> obj.name,
   fields |-> [i \in 1..Len(obj.fields) |->
     LET f       == obj.fields[i]
         wrapped == Wrap(<<"$1">>, f.wraps)
         def     == [j \in 1..Len(wrapped) |->
                       IF wrapped[j] = "$1" THEN f.name ELSE wrapped[j]]
     IN [key      |-> f.key,
         type     |-> TextOf(def),
         rawType  |-> f.name,
         nullable |-> def[Len(def)] # "!"]]]

\* defineTableHelper(type, stubs): makeExecutableSchema raises when a field
\* names a type that is neither built in, declared nor a stub; the object
\* types without fields are left out
DefineTableHelper(decl) ==
  LET known == ReservedTypeNames \cup decl.stubs
                 \cup { decl.types[i].name : i \in 1..Len(decl.types) }
      valid == \A i \in 1..Len(decl.types) :
                 \A j \in 1..Len(decl.types[i].fields) :
                   decl.types[i].fields[j].name \in known
      objs  == SelectSeq(decl.types, LAMBDA t : Len(t.fields) > 0)
  IN [ok   |-> valid,
      objs |-> IF valid THEN [i \in 1..Len(objs) |-> ParseGqlObj(objs[i])] ELSE <<>>]

\* the annotations that occur, as their pieces
Wrappings ==
  {<<>>, <<"NonNull">>, <<"List">>, <<"NonNull", "List">>, <<"List", "NonNull">>,
   <<"NonNull", "List", "NonNull">>}

AnnotationPieces ==
  { Wrap(<<n>>, w) : n \in ReservedTypeNames \cup TypeNames \cup {"UW"}, w \in Wrappings }

PiecesOf(type) == CHOOSE pieces \in AnnotationPieces : TextOf(pieces) = type

\* type.replace(/[![\]]/g, '')
StripWrappers(type) ==
  TextOf(SelectSeq(PiecesOf(type), LAMBDA c : c \notin {"!", "[", "]"}))

\* --------------------------------------------------------- HelpfulTinyDb
\* #table(user, scope, ...keys)
TableName(prefix, user, scope, keys) ==
  TextOf(TableChars(<<prefix, user, scope>> \o keys))

\* chars.split(separator)
RECURSIVE Split(_, _)
Split(chars, sep) ==
  IF sep \notin Range(chars) THEN <<chars>>
  ELSE LET i == IndexOf(chars, sep)
       IN <<SubSeq(chars, 1, i - 1)>> \o Split(SubSeq(chars, i + 1, Len(chars)), sep)

\* chars.slice(n)
Slice(chars, n) == IF n >= Len(chars) THEN <<>> ELSE SubSeq(chars, n + 1, Len(chars))

\* #translateSchema(schema): user, scope and name are the first three parts
\* of the table name after the prefix and one separator are cut off, a part
\* that is not there is Absent
TranslateSchema(prefix, name, columns) ==
  LET parts   == Split(Slice(Chars(name), Len(WordChars(prefix)) + Len(<<Separator>>)),
                       Separator)
      part(i) == IF i <= Len(parts) THEN TextOf(parts[i]) ELSE Absent
  IN [id     |-> Absent,
      user   |-> part(1),
      scope  |-> part(2),
      name   |-> part(3),
      fields |-> [i \in 1..Len(columns) |->
                    [key  |-> columns[i].name,
                     type |-> IF columns[i].meta \notin {Absent, ""}
                              THEN columns[i].meta
                              ELSE columns[i].type
                                     \o (IF columns[i].nullable THEN "" ELSE "!")]]]

\* getSchemas(user, scope)
GetSchemas(db, user, scope) ==
  { TranslateSchema(db.prefix, s.name, s.columns) :
      s \in List(db, TableName(db.prefix, user, scope, <<>>)) }

\* the column type #registerSchema gives a field
ColumnTypeOf(rawType) ==
  IF rawType \in ColumnTypes THEN rawType
  ELSE IF rawType \in ReservedTypeNames THEN "ID" ELSE "JSON"

\* the columns #registerSchema gives the fields of a parsed object type
ColumnsOf(obj) ==
  [i \in 1..Len(obj.fields) |->
     Col(obj.fields[i].key, ColumnTypeOf(obj.fields[i].rawType),
         obj.fields[i].nullable, obj.fields[i].type)]

\* #registerSchema(user, scope, obj): create writes the id column into the
\* schema that is translated afterwards
RegisterSchema(db, user, scope, obj) ==
  LET table == TableName(db.prefix, user, scope, <<obj.name>>)
      r     == Create(db, table, Schema(ColumnsOf(obj), <<>>))
  IN Out(r, <<TranslateSchema(db.prefix, table, SetId(ColumnsOf(obj), "ID!"))>>)

RECURSIVE RegisterEach(_, _, _, _)
RegisterEach(acc, user, scope, objs) ==
  IF objs = <<>> \/ ~acc.ok THEN acc
  ELSE LET r == RegisterSchema(acc.db, user, scope, Head(objs))
       IN RegisterEach([ok |-> r.ok, db |-> r.db,
                        ret |-> IF r.ok THEN acc.ret \o r.ret ELSE <<>>],
                       user, scope, Tail(objs))

\* registerSchemas(user, scope, schema, stubs)
RegisterSchemas(db, user, scope, decl) ==
  LET h == DefineTableHelper(decl)
  IN IF ~h.ok THEN Out(Fail(db), <<>>)
     ELSE RegisterEach(Out(Ok(db), <<>>), user, scope, h.objs)

\* replaceSchema(user, scope, name, schema, stubs)
ReplaceSchema(db, user, scope, name, decl) ==
  LET h     == DefineTableHelper(decl)
      names == [i \in 1..Len(h.objs) |-> h.objs[i].name]
  IN IF ~h.ok \/ name \notin Range(names) THEN Out(Fail(db), <<>>)
     ELSE RegisterSchema(db, user, scope, h.objs[IndexOf(names, name)])

\* #key(user, scope, ...keys), as characters
Key(prefix, user, scope, keys) == TableChars(<<prefix, user, scope>> \o keys)

\* SQLiteKeyValueStore.put(key, value): INSERT ... ON CONFLICT DO UPDATE
KvPut(db, key, value) ==
  Ok([db EXCEPT !.kv = { e \in @ : e.key # key } \cup {[key |-> key, value |-> value]}])

\* SQLiteKeyValueStore.delPrefixed(prefix): DELETE ... WHERE key LIKE prefix + '%'
KvDelPrefixed(db, prefix) ==
  Ok([db EXCEPT !.kv = { e \in @ : ~Like(e.key, prefix \o <<"%">>) }])

\* put(user, scope, key, value)
PutKey(db, user, scope, key, value) ==
  KvPut(db, Key(db.prefix, user, scope, <<key>>), value)

\* delAllUserData(user, scope): scope is "" when the call gives none
DelAllUserData(db, user, scope) ==
  Then(KvDelPrefixed(db, Key(db.prefix, user, scope, <<>>)),
       LAMBDA d : DropPrefixed(d, TableName(d.prefix, user, scope, <<>>)))

\* --------------------------------------------------------------- GQLTable
\* new HelpfulGQLTable(dynTable, schema)
GQLTable(schema) == [name |-> schema.name, fields |-> schema.fields]

Reserved(type) == StripWrappers(type) \in ReservedTypeNames

Member(key, type) == [key |-> key, type |-> type]

\* schema: the fields of the object type
RECURSIVE TypeFields(_)
TypeFields(fields) ==
  IF fields = <<>> THEN <<>>
  ELSE LET f == Head(fields)
       IN (IF Reserved(f.type) THEN <<Member(f.key, f.type)>>
           ELSE <<Member(f.key, f.type), Member(f.key \o "ID", "ID")>>)
          \o TypeFields(Tail(fields))

\* inputSchema: the fields of the input type
InputFields(fields) ==
  LET kept == SelectSeq(fields, LAMBDA f : f.key # "id")
  IN [i \in 1..Len(kept) |->
        Member(kept[i].key, IF Reserved(kept[i].type) THEN kept[i].type ELSE "ID")]

\* variant: every letter of the name is lowered
LnameAll(name) ==
  LET chars == WordChars(name)
  IN TextOf([i \in 1..Len(chars) |-> Lower(chars[i])])

\* lname: the name with its first letter in lower case
Lname(name) ==
  LET chars == WordChars(name)
  IN TextOf(<<Lower(chars[1])>> \o Tail(chars))

\* queries, mutations: the names of the operations
QueryNames(name) == <<Lname(name) \o "s", Lname(name)>>

MutationNames(name) ==
  <<"batch" \o name, "add" \o name, "put" \o name, "del" \o name>>

\* table(table): new SQLiteDynTable(db, [prefix, table].join(separator)), a
\* string where the table expects its schema: the name the table reads from
\* it is undefined
OpenedName(table) == "undefined"

\* one(id) of a table opened by table(table)
OpenedOne(db, table, id) ==
  LET r == ClientOne(SelectById(db, OpenedName(table), id))
  IN Out(IF r.ok THEN Fail(r.db) ELSE r, <<>>)

\* load(type, id) of the context HelpfulTinyDb.query gives the resolvers:
\* null when no table has the name
Load(db, user, scope, type, id) ==
  IF \E t \in GetSchemas(db, user, scope) : t.name = type
  THEN LET r == OpenedOne(db, TableName(db.prefix, user, scope, <<type>>), id)
       IN [ok |-> r.ok, ret |-> r.ret, found |-> TRUE, type |-> type, id |-> id]
  ELSE [ok |-> TRUE, ret |-> <<>>, found |-> FALSE, type |-> type, id |-> id]

\* resolvers[field.key](src, _, ctx) of a field that is not of a built-in
\* type
ResolveField(db, user, scope, field, src) ==
  Load(db, user, scope, field.type, ValueOf(src, field.key))

\* the generated batch mutation: the input holds { type, id, value }, the
\* table reads op.key of every operation
BatchMutation(db, table, input) ==
  Batch(db, table, [i \in 1..Len(input) |->
                      BatchOp(input[i].type, Undef, input[i].value)])

\* ------------------------------------------------------ declared inputs
\* type W { x: Int } and type W { x: Int! }
DeclW  == Declaration(<<ObjType("W", <<Field("x", <<>>, "Int")>>)>>, {})
DeclWR == Declaration(<<ObjType("W", <<Field("x", <<"NonNull">>, "Int")>>)>>, {})

\* type U { w: ... W ... } with the stub type W
DeclU(wraps) == Declaration(<<ObjType("U", <<Field("w", wraps, "W")>>)>>, {"W"})

\* type U { id: ID!, n: String, w: W } with the stub type W
DeclTest ==
  Declaration(<<ObjType("U", <<Field("id", <<"NonNull">>, "ID"),
                               Field("n", <<>>, "String"),
                               Field("w", <<>>, "W")>>)>>, {"W"})

\* type U { n: String! } type W { x: Int }
DeclBoth ==
  Declaration(<<ObjType("U", <<Field("n", <<"NonNull">>, "String")>>),
                ObjType("W", <<Field("x", <<>>, "Int")>>)>>, {})

\* type U { w: W } where nothing declares W
DeclUnknown == Declaration(<<ObjType("U", <<Field("w", <<>>, "W")>>)>>, {})

\* nullable, required and list references
ReferenceForms == {<<>>, <<"NonNull">>, <<"List">>}

TenantDecls == {DeclW, DeclTest} \cup { DeclU(w) : w \in ReferenceForms }

RegisterDecls ==
  {DeclW, DeclWR, DeclTest, DeclBoth, DeclUnknown, DeclU(<<"List", "NonNull">>)}
  \cup { DeclU(w) : w \in ReferenceForms }

\* the values add gives the columns of a tenant's table
TenantInputs(db, table, related) ==
  { SelectSeq(<<Entry("x", Num(1)), Entry("n", Str(0 - 2)), Entry("w", i)>>,
              LAMBDA e : e.key \in Range(ColNames(Define(db, table).columns))) :
      i \in StoredIds(db, related) \cup {Null} }

\* the tables, and the objects of the tables, the generated types are
\* made for
SurfaceNames == {"U", "W", "UW"}

SurfaceFields ==
  { SelectSeq(<<Member("id", i), Member("n", n), Member("w", w)>>,
              LAMBDA m : m.type # Absent) :
      i \in {Absent, "ID!"},
      n \in {Absent, "String", "Int!", "Date", "[JSON]"},
      w \in {Absent, "W", "W!", "[W]", "[W!]!", "UW"} }

\* the operations of a batch mutation: { type, id, value }
BatchInputs(db, table) ==
  { [type |-> "put", id |-> i, value |-> v] :
      i \in StoredIds(db, table),
      v \in { <<Entry("x", Num(2))>>, <<Entry("y", Str(0 - 3))>> } }
  \cup { [type |-> "del", id |-> i, value |-> <<>>] : i \in StoredIds(db, table) }

\* ------------------------------------------------------------- state machine
\* the tables the calls of the specifications below work on
Tables == {"t"}

VARIABLES db, nextId, last

vars == <<db, nextId, last>>

NoCall == [op |-> "idle", table |-> "", schema |-> Schema(<<>>, <<>>), fault |-> 0,
           id |-> Null, input |-> <<>>, ops |-> <<>>, gen |-> Null,
           ok |-> TRUE, ret |-> <<>>, pre |-> EmptyDb]

Init ==
  /\ db = EmptyDb
  /\ nextId = 1
  /\ last = NoCall

Defined(table) == db.catalog[table].exists

\* the caller awaits every call before it makes the next one
Idle == last.op = "idle"

Resume ==
  /\ ~Idle
  /\ last' = NoCall
  /\ UNCHANGED <<db, nextId>>

CreateAct ==
  /\ Idle
  /\ \E table \in Tables, schema \in Schemas :
    LET r == Create(db, table, schema)
    IN /\ db' = r.db
       /\ last' = [NoCall EXCEPT !.op = "create", !.table = table, !.schema = schema,
                                 !.ok = r.ok, !.pre = db]
       /\ UNCHANGED nextId

RedefineAct ==
  /\ Idle
  /\ \E table \in Tables, schema \in Schemas, fault \in Faults :
    LET r == Redefine(db, table, schema, fault)
    IN /\ db.catalog[table].version < MaxVersion
       /\ db' = r.db
       /\ last' = [NoCall EXCEPT !.op = "redefine", !.table = table, !.schema = schema,
                                 !.fault = fault, !.ok = r.ok, !.pre = db]
       /\ UNCHANGED nextId

DropAct ==
  /\ Idle
  /\ \E table \in Tables :
    LET r == Drop(db, table)
    IN /\ db' = r.db
       /\ last' = [NoCall EXCEPT !.op = "drop", !.table = table, !.ok = r.ok, !.pre = db]
       /\ UNCHANGED nextId

SeedAct ==
  \E table \in Tables :
    /\ Idle
    /\ Defined(table)
    /\ nextId <= MaxIds
    /\ Len(db.tables[Tbl(table)].rows) < MaxRows
    /\ \E input \in Seeds :
         LET r == Add(db, table, Str(nextId), input)
         IN /\ db' = r.db
            /\ nextId' = nextId + 1
            /\ last' = [NoCall EXCEPT !.op = "add", !.table = table, !.input = input,
                                      !.gen = Str(nextId), !.ok = r.ok, !.ret = r.ret,
                                      !.pre = db]

AddAct ==
  \E table \in Tables :
    /\ Idle
    /\ Defined(table)
    /\ nextId <= MaxIds
    /\ Len(db.tables[Tbl(table)].rows) < MaxRows
    /\ \E input \in Partials(db, table) :
         LET r == Add(db, table, Str(nextId), input)
         IN /\ db' = r.db
            /\ nextId' = nextId + 1
            /\ last' = [NoCall EXCEPT !.op = "add", !.table = table, !.input = input,
                                      !.gen = Str(nextId), !.ok = r.ok, !.ret = r.ret,
                                      !.pre = db]

PutAct ==
  \E table \in Tables :
    /\ Idle
    /\ Defined(table)
    /\ \E id \in IdInputs(db, table), input \in Partials(db, table) :
         LET r == Put(db, table, id, input)
         IN /\ db' = r.db
            /\ last' = [NoCall EXCEPT !.op = "put", !.table = table, !.id = id,
                                      !.input = input, !.ok = r.ok, !.ret = r.ret,
                                      !.pre = db]
            /\ UNCHANGED nextId

DelAct ==
  \E table \in Tables :
    /\ Idle
    /\ Defined(table)
    /\ \E id \in IdInputs(db, table) :
         LET r == Del(db, table, id)
         IN /\ db' = r.db
            /\ last' = [NoCall EXCEPT !.op = "del", !.table = table, !.id = id,
                                      !.ok = r.ok, !.pre = db]
            /\ UNCHANGED nextId

BatchAct ==
  \E table \in Tables :
    /\ Idle
    /\ Defined(table)
    /\ \E ops \in SeqsUpTo(BatchOps(db, table), MaxBatch) :
         LET r == Batch(db, table, ops)
         IN /\ db' = r.db
            /\ last' = [NoCall EXCEPT !.op = "batch", !.table = table, !.ops = ops,
                                      !.ok = r.ok, !.pre = db]
            /\ UNCHANGED nextId

\* the table store: create, redefine and drop, over tables filled by add
Next ==
  \/ CreateAct
  \/ RedefineAct
  \/ DropAct
  \/ SeedAct
  \/ Resume

Spec == Init /\ [][Next]_vars

\* one table: add, put, del and batch on a table of a created schema
TableSchemas == {SchemaXY, SchemaXYW}

InitTable ==
  /\ \E schema \in TableSchemas : db = Create(EmptyDb, "t", schema).db
  /\ nextId = 1
  /\ last = NoCall

NextTable ==
  \/ AddAct
  \/ PutAct
  \/ DelAct
  \/ BatchAct
  \/ Resume

SpecTable == InitTable /\ [][NextTable]_vars


\* one query and one record: search({ query }) on the table that holds the
\* record, and resolveQuery(query, record) in memory
Asked(query, record) ==
  [op |-> "ask", query |-> query, record |-> record,
   compiled |-> Malformed, found |-> "", resolved |-> ""]

InitQuery ==
  /\ db = EmptyDb
  /\ nextId = 1
  /\ \E query \in Queries, record \in Records : last = Asked(query, record)

SearchAct ==
  /\ last.op = "ask"
  /\ LET compiled == CompileQuery(last.query)
     IN last' = [last EXCEPT !.op = "search", !.compiled = compiled,
                             !.found = SearchOne(compiled, last.record)]
  /\ UNCHANGED <<db, nextId>>

ResolveAct ==
  /\ last.op = "search"
  /\ last' = [last EXCEPT !.op = "resolve",
                          !.resolved = ResolveQuery(last.query, JObj(last.record))]
  /\ UNCHANGED <<db, nextId>>

NextQuery ==
  \/ SearchAct
  \/ ResolveAct

SpecQuery == InitQuery /\ [][NextQuery]_vars

\* one table filled by add, and the searches on it
InitSearch ==
  /\ db = Create(EmptyDb, "t", SchemaXY).db
  /\ nextId = 1
  /\ last = NoCall

FillAct ==
  /\ Idle
  /\ nextId <= MaxFound
  /\ \E input \in Found :
       LET r == Add(db, "t", Str(nextId), input)
       IN /\ db' = r.db
          /\ nextId' = nextId + 1
          /\ last' = [NoCall EXCEPT !.op = "add", !.table = "t", !.input = input,
                                    !.gen = Str(nextId), !.ok = r.ok, !.ret = r.ret,
                                    !.pre = db]

SearchTableAct ==
  /\ Idle
  /\ \E search \in Searches :
       LET r == Search(db, "t", search)
       IN /\ search.given \/ search.query = <<>>
          /\ last' = [op |-> "search", table |-> "t", search |-> search,
                      ok |-> r.ok, ret |-> r.ret, pre |-> db]
  /\ UNCHANGED <<db, nextId>>

NextSearch ==
  \/ FillAct
  \/ SearchTableAct
  \/ Resume

SpecSearch == InitSearch /\ [][NextSearch]_vars

\* several tables of one store: create, list and dropPrefixed
CreateNamedAct ==
  /\ Idle
  /\ \E table \in Names, schema \in ListSchemas :
       LET r == Create(db, table, schema)
       IN /\ db' = r.db
          /\ last' = [NoCall EXCEPT !.op = "create", !.table = table, !.schema = schema,
                                    !.ok = r.ok, !.pre = db]
          /\ UNCHANGED nextId

ListAct ==
  /\ Idle
  /\ \E prefix \in Prefixes :
       last' = [op |-> "list", prefix |-> prefix, ok |-> TRUE,
                ret |-> List(db, prefix), pre |-> db]
  /\ UNCHANGED <<db, nextId>>

DropPrefixedAct ==
  /\ Idle
  /\ \E prefix \in Prefixes \ {Absent} :
       LET r == DropPrefixed(db, prefix)
       IN /\ db' = r.db
          /\ last' = [op |-> "dropPrefixed", prefix |-> prefix, ok |-> r.ok,
                      ret |-> {}, pre |-> db]
  /\ UNCHANGED nextId

NextList ==
  \/ CreateNamedAct
  \/ ListAct
  \/ DropPrefixedAct
  \/ Resume

SpecList == Init /\ [][NextList]_vars

\* one table with a column v of one type: values written by add and put
\* and read back by one
InitValue ==
  /\ \E type \in ColumnTypes : db = Create(EmptyDb, "t", SchemaOf(type)).db
  /\ nextId = 1
  /\ last = NoCall

AddValueAct ==
  /\ Idle
  /\ Len(db.tables[Tbl("t")].rows) < MaxRows
  /\ \E value \in ValuesOf(Define(db, "t").columns[1].type) \cup {Null} :
       LET r == Add(db, "t", Str(nextId), <<Entry("v", value)>>)
       IN /\ db' = r.db
          /\ nextId' = nextId + 1
          /\ last' = [op |-> "addValue", id |-> Str(nextId), value |-> value,
                      ok |-> r.ok, ret |-> r.ret,
                      read |-> One(r.db, "t", Str(nextId)).ret, pre |-> db]

PutValueAct ==
  /\ Idle
  /\ \E id \in StoredIds(db, "t"),
        value \in ValuesOf(Define(db, "t").columns[1].type) \cup {Null} :
       LET r == Put(db, "t", id, <<Entry("v", value)>>)
       IN /\ db' = r.db
          /\ last' = [op |-> "putValue", id |-> id, value |-> value,
                      ok |-> r.ok, ret |-> r.ret,
                      read |-> One(r.db, "t", id).ret, pre |-> db]
  /\ UNCHANGED nextId

NextValue ==
  \/ AddValueAct
  \/ PutValueAct
  \/ Resume

SpecValue == InitValue /\ [][NextValue]_vars

\* one tenant of a HelpfulTinyDb: tables are registered and replaced,
\* records are added to them, reference fields are resolved
TenantUser  == "a"
TenantScope == "s"

TenantTable(name) == TableName(db.prefix, TenantUser, TenantScope, <<name>>)

InitTenant ==
  /\ db = HelpfulDb("p")
  /\ nextId = 1
  /\ last = NoCall

\* registerSchemas(user, scope, declaration), then getSchemas(user, scope)
Register(users, scopes, decls) ==
  /\ Idle
  /\ \E user \in users, scope \in scopes, decl \in decls :
       LET r == RegisterSchemas(db, user, scope, decl)
       IN /\ db' = r.db
          /\ last' = [op |-> "registerSchemas", user |-> user, scope |-> scope,
                      decl |-> decl, ok |-> r.ok, ret |-> r.ret,
                      schemas |-> GetSchemas(r.db, user, scope), pre |-> db]
  /\ UNCHANGED nextId

RegisterTenantAct == Register({TenantUser}, {TenantScope}, TenantDecls)

TenantAddAct ==
  /\ Idle
  /\ nextId <= MaxIds
  /\ \E name \in TypeNames :
       /\ Defined(TenantTable(name))
       /\ Len(db.tables[Tbl(TenantTable(name))].rows) < MaxRows
       /\ \E input \in TenantInputs(db, TenantTable(name), TenantTable("W")) :
            LET r == Add(db, TenantTable(name), Str(nextId), input)
            IN /\ db' = r.db
               /\ last' = [op |-> "add", name |-> name, input |-> input,
                           ok |-> r.ok, ret |-> r.ret, pre |-> db]
  /\ nextId' = nextId + 1

\* the resolver of a reference field of a table of the query, on a record
\* of the table
ResolveFieldAct ==
  /\ Idle
  /\ \E schema \in GetSchemas(db, TenantUser, TenantScope) :
       \E i \in 1..Len(GQLTable(schema).fields) :
         LET field == GQLTable(schema).fields[i]
         IN /\ ~Reserved(field.type)
            /\ \E src \in Range(All(db, TenantTable(schema.name))) :
                 LET r == ResolveField(db, TenantUser, TenantScope, field, src)
                 IN last' = [op |-> "resolve", name |-> schema.name, field |-> field,
                             src |-> src, load |-> r, ok |-> r.ok, ret |-> r.ret,
                             pre |-> db]
  /\ UNCHANGED <<db, nextId>>

\* replaceSchema(user, scope, name, declaration)
ReplaceSchemaAct ==
  /\ Idle
  /\ \E name \in TypeNames, decl \in TenantDecls :
       LET r == ReplaceSchema(db, TenantUser, TenantScope, name, decl)
       IN /\ db' = r.db
          /\ last' = [op |-> "replaceSchema", name |-> name, decl |-> decl,
                      ok |-> r.ok, ret |-> r.ret, pre |-> db]
  /\ UNCHANGED nextId

NextTenant ==
  \/ RegisterTenantAct
  \/ TenantAddAct
  \/ ResolveFieldAct
  \/ ReplaceSchemaAct
  \/ Resume

SpecTenant == InitTenant /\ [][NextTenant]_vars

\* every tenant of a HelpfulTinyDb constructed with either prefix
MaxTables == 2

Registered == { n \in DOMAIN db.catalog : db.catalog[n].exists }

InitRegister ==
  /\ \E prefix \in TinyPrefixes : db = HelpfulDb(prefix)
  /\ nextId = 1
  /\ last = NoCall

RegisterAct ==
  /\ Cardinality(Registered) < MaxTables
  /\ Register(Users, Scopes, RegisterDecls)

NextRegister ==
  \/ RegisterAct
  \/ Resume

SpecRegister == InitRegister /\ [][NextRegister]_vars

\* the generated types and operation names of a table
InitSurface ==
  /\ db = EmptyDb
  /\ nextId = 1
  /\ last = NoCall

SurfaceAct ==
  /\ Idle
  /\ \E name \in SurfaceNames, fields \in SurfaceFields :
       last' = [op |-> "surface", name |-> name, fields |-> fields,
                type |-> TypeFields(fields), input |-> InputFields(fields),
                queries |-> QueryNames(name), mutations |-> MutationNames(name)]
  /\ UNCHANGED <<db, nextId>>

NextSurface ==
  \/ SurfaceAct
  \/ Resume

SpecSurface == InitSurface /\ [][NextSurface]_vars

\* the generated batch mutation of a table
BatchMutationAct ==
  \E table \in Tables :
    /\ Idle
    /\ Defined(table)
    /\ \E input \in SeqsUpTo(BatchInputs(db, table), MaxBatch) :
         LET r == BatchMutation(db, table, input)
         IN /\ db' = r.db
            /\ last' = [NoCall EXCEPT !.op = "batchMutation", !.table = table,
                                      !.ops = input, !.ok = r.ok, !.ret = r.ret,
                                      !.pre = db]
            /\ UNCHANGED nextId

NextBatch ==
  \/ AddAct
  \/ BatchMutationAct
  \/ Resume

SpecBatch == InitTable /\ [][NextBatch]_vars

\* ------------------------------------------------------------------- claims
\* what the last call saw before it ran, and what is there now
PreEntry   == Define(last.pre, last.table)
PostEntry  == Define(db, last.table)
PreTable   == last.pre.tables[Tbl(last.table)]
PostTable  == db.tables[Tbl(last.table)]

NonId(columns) == SelectSeq(columns, LAMBDA c : c.name # "id")

\* the caller's schema has the columns (whatever their order) and the indexes
\* of the defined schema; the id column belongs to the store
SameStructure(schema, entry) ==
  /\ Range(NonId(schema.columns)) = Range(NonId(entry.columns))
  /\ Len(NonId(schema.columns)) = Len(NonId(entry.columns))
  /\ schema.indexes = entry.indexes

ValueAt(cols, row, name) == row[IndexOf(DeclNames(cols), name)]

\* a schema the backend accepts for the rows that are stored: its indexes
\* name columns it has, its unique indexes hold for the stored rows, and
\* the columns it adds are nullable when rows exist
Migratable(schema) ==
  /\ PreTable.exists
  /\ \A i \in 1..Len(schema.indexes) :
       /\ Range(schema.indexes[i].fields) \subseteq Range(ColNames(schema.columns))
       /\ schema.indexes[i].unique =>
            /\ Range(schema.indexes[i].fields) \subseteq Range(DeclNames(PreTable.cols))
            /\ UniqueOn(PreTable.cols, PreTable.rows, schema.indexes[i].fields)
  /\ \A i \in 1..Len(schema.columns) :
       (schema.columns[i].name \notin Range(ColNames(PreEntry.columns)) /\ PreTable.rows # <<>>)
         => schema.columns[i].nullable

IsMigration ==
  /\ last.op = "redefine"
  /\ PreEntry.exists
  /\ ~SameStructure(last.schema, PreEntry)

\* C1: a redefine that changes the columns or indexes of an existing table
\* bumps the version by one, keeps for every row the value of every column
\* that is in both schemas, drops the columns that are not in the new schema
\* and leaves the new columns null
C1_RedefineKeepsCommonColumns ==
  (IsMigration /\ last.fault = 0 /\ Migratable(last.schema)) =>
     /\ last.ok
     /\ PostEntry.version = PreEntry.version + 1
     /\ Len(PostTable.rows) = Len(PreTable.rows)
     /\ Range(DeclNames(PostTable.cols)) = Range(ColNames(last.schema.columns)) \cup {"id"}
     /\ \A r \in 1..Len(PreTable.rows), c \in 1..Len(PostTable.cols) :
          LET name == PostTable.cols[c].name
          IN IF name \in Range(DeclNames(PreTable.cols))
             THEN PostTable.rows[r][c] = ValueAt(PreTable.cols, PreTable.rows[r], name)
             ELSE PostTable.rows[r][c] = Null

\* C2: a redefine migration that fails at any of its statements leaves the
\* database (live table, rows, indexes, catalog entry) as it was before the
\* call, and no shadow table
C2_FailedMigrationRollsBack ==
  (last.op = "redefine" /\ PreEntry.exists /\ ~last.ok) =>
     /\ db = last.pre
     /\ ~db.tables[Shadow(last.table)].exists

\* a migration whose rename failed after the live table with rows in it had
\* been dropped
C2_Witness ==
  /\ last.op = "redefine" /\ PreEntry.exists /\ ~last.ok
  /\ last.fault = 5
  /\ Len(PreTable.rows) > 0
  /\ Len(PostTable.rows) > 0

\* C3: redefine with the columns and indexes the table is defined with is a
\* no-op, after a create as well as after a redefine: the version and the
\* stored rows stay as they are
C3_RedefineSameIsNoOp ==
  (last.op = "redefine" /\ PreEntry.exists /\ SameStructure(last.schema, PreEntry)) =>
     /\ last.ok
     /\ PostEntry.version = PreEntry.version
     /\ db = last.pre

C7_CreateExistingFails ==
  (last.op = "create" /\ PreEntry.exists) =>
     /\ ~last.ok
     /\ db = last.pre

\* a create on a defined table that holds rows, with another schema
C7_Witness ==
  /\ last.op = "create" /\ PreEntry.exists
  /\ Len(PreTable.rows) > 0
  /\ ~SameStructure(last.schema, PreEntry)
  /\ ~last.ok


\* the rows a sequence of batch operations leaves when each put and del is
\* made as a call of its own, one after the other
RECURSIVE OneByOne(_, _, _)
OneByOne(d, table, ops) ==
  IF ops = <<>> THEN d
  ELSE LET op == Head(ops)
       IN OneByOne(IF op.type = "put" THEN Put(d, table, op.key, op.value).db
                   ELSE IF op.type = "del" THEN Del(d, table, op.key).db
                   ELSE d,
                   table, Tail(ops))

\* C6: batch(ops) is atomic: either every put and del of ops is applied, in
\* order, or the batch raises once and the rows are those before the call
C6_BatchAtomic ==
  (last.op = "batch") =>
     IF last.ok
     THEN db = OneByOne(last.pre, last.table, last.ops)
     ELSE db = last.pre

\* a batch whose first operation deletes a stored record and whose second
\* operation raises
C6_Witness ==
  /\ last.op = "batch" /\ ~last.ok
  /\ Len(last.ops) = 2
  /\ last.ops[1].type = "del"
  /\ last.ops[1].key \in StoredIds(last.pre, last.table)
  /\ last.ops[1].key \in StoredIds(db, last.table)

\* the ids the generator has handed out
Generated == { Str(n) : n \in 1..(nextId - 1) }

IdOf(t, r) == t.rows[r][IdPos(t.cols)]

\* C8: add(partial) inserts exactly one record, whose id is the id the
\* store generated for the call and is the id of no record that was there,
\* and returns the decoded record; one(id) then returns an equal record and
\* all() contains it
C8_AddInsertsFreshRecord ==
  (last.op = "add" /\ last.ok) =>
     /\ Len(PostTable.rows) = Len(PreTable.rows) + 1
     /\ SubSeq(PostTable.rows, 1, Len(PreTable.rows)) = PreTable.rows
     /\ Len(last.ret) = 1
     /\ ValueOf(last.ret[1], "id") = last.gen
     /\ last.gen \notin StoredIds(last.pre, last.table)
     /\ One(db, last.table, last.gen).ret = last.ret
     /\ last.ret[1] \in Range(All(db, last.table))

\* C9: the id of a record is the one the store generated when the record was
\* inserted and never changes: add stores the generated id, put and batch
\* leave the id of every record alone, whatever id the input carries
C9_IdGeneratedAndImmutable ==
  /\ StoredIds(db, "t") \subseteq Generated
  /\ (last.op = "add" /\ last.ok) =>
        IdOf(PostTable, Len(PostTable.rows)) = last.gen
  /\ (last.op = "put" /\ last.ok) =>
        \A r \in 1..Len(PreTable.rows) : IdOf(PostTable, r) = IdOf(PreTable, r)
  /\ (last.op = "batch" /\ last.ok) =>
        StoredIds(db, last.table) \subseteq StoredIds(last.pre, last.table)

\* the position of the record with the given id
RowOf(t, id) == CHOOSE r \in 1..Len(t.rows) : MatchesId(t.cols, t.rows[r], id)

C5_CompileAgreesWithResolve ==
  last.op = "resolve" =>
    ((last.found = "selected") <=> (last.resolved = "true"))

\* the records are in the order of the sort tokens: no record is before one
\* that the tokens put before it
Ordered(records, tokens) ==
  \A i, j \in 1..Len(records) :
    i < j => ~RowBefore(<<[name |-> "x"], [name |-> "y"], [name |-> "id"]>>, tokens,
                        <<ValueOf(records[j], "x"), ValueOf(records[j], "y"),
                          ValueOf(records[j], "id")>>,
                        <<ValueOf(records[i], "x"), ValueOf(records[i], "y"),
                          ValueOf(records[i], "id")>>)

\* the records from position skip on, limit of them when a limit is given
Page(records, skip, limit) ==
  LET from == IF skip = Undef THEN 0 ELSE skip.n
      to   == IF limit = Undef \/ from + limit.n > Len(records) THEN Len(records)
              ELSE from + limit.n
  IN SubSeq(records, from + 1, to)

\* C11: search({query, sort, skip, limit}) returns the records at positions
\* skip .. skip+limit-1 of the matching records in the order of the sort
\* tokens, and all matching records after the first skip when limit is
\* absent, whichever of query, sort, skip and limit are given
C11_SearchPage ==
  (last.op = "search") =>
     LET o        == last.search
         matching == Search(last.pre, "t", SearchOptions(o.given, o.query, <<>>, Undef, Undef)).ret
     IN /\ last.ok
        /\ \E p \in Permutations(1..Len(matching)) :
             LET sorted == [i \in 1..Len(matching) |-> matching[p[i]]]
             IN /\ Ordered(sorted, o.sort)
                /\ last.ret = Page(sorted, o.skip, o.limit)

\* name begins with prefix, character for character
BeginsWith(name, prefix) ==
  /\ Len(Chars(prefix)) <= Len(Chars(name))
  /\ SubSeq(Chars(name), 1, Len(Chars(prefix))) = Chars(prefix)

\* C12: list(prefix) returns exactly the catalog entries whose name begins
\* with prefix, character for character, list() returns every entry, and
\* dropPrefixed(prefix) removes exactly the entries whose name begins with
\* prefix, with their physical tables
C12_ListAndDropByPrefix ==
  /\ (last.op = "list") =>
        last.ret = { Define(last.pre, n) :
                       n \in { m \in Names :
                                 /\ last.pre.catalog[m].exists
                                 /\ last.prefix = Absent \/ BeginsWith(m, last.prefix) } }
  /\ (last.op = "dropPrefixed") =>
        /\ last.ok
        /\ \A n \in Names :
             IF last.pre.catalog[n].exists /\ BeginsWith(n, last.prefix)
             THEN ~db.catalog[n].exists /\ ~db.tables[Tbl(n)].exists
             ELSE /\ db.catalog[n] = last.pre.catalog[n]
                  /\ db.tables[Tbl(n)] = last.pre.tables[Tbl(n)]

\* C13: every schema of the catalog has a column named id of type ID that
\* is not nullable and is described as ID!, whether the schema was stored
\* by create or by redefine and whether or not the caller gave an id column
C13_IdColumnOfEverySchema ==
  \A n \in Names :
    db.catalog[n].exists =>
      \E i \in 1..Len(Define(db, n).columns) :
        Define(db, n).columns[i] = Col("id", "ID", FALSE, "ID!")

\* C14: for every column type and every value of the type, null and the
\* strings stored in a JSON column included, the value written by add or
\* put is the value one(id) reads back
C14_ValueRoundTrip ==
  (last.op \in {"addValue", "putValue"}) =>
     /\ last.ok
     /\ Len(last.read) = 1
     /\ ValueOf(last.read[1], "v") = last.value

\* the table of the type a reference field names, the id the record holds
\* in the field, and the record one(id) of that table reads
RelatedTable == TenantTable(StripWrappers(last.field.type))
StoredId     == ValueOf(last.src, last.field.key)
RelatedOne   == One(db, RelatedTable, StoredId)

\* C15: the resolver of a reference field, nullable, required or list,
\* calls the loader with the name of the related type and the stored id,
\* and resolves to the record one(id) of the related table whenever that
\* table and that record exist
C15_ReferenceResolves ==
  (/\ last.op = "resolve"
   /\ Defined(RelatedTable)
   /\ RelatedOne.ok /\ RelatedOne.ret # <<>>) =>
     /\ last.load.type = StripWrappers(last.field.type)
     /\ last.load.id = StoredId
     /\ last.ok
     /\ last.ret = RelatedOne.ret

\* an annotation that names a built-in type, in any wrapping
NamesBuiltIn(type) ==
  \E n \in ReservedTypeNames, w \in Wrappings : type = TextOf(Wrap(<<n>>, w))

\* the table names with the first letter in lower case
LoweredFirst(name) ==
  CASE name = "U" -> "u" [] name = "W" -> "w" [] name = "UW" -> "uW"

\* C16: the generated object type has every column and, for exactly the
\* columns whose annotation does not name a built-in type, a field
\* <column>ID of type ID; the input type has every column but id, the
\* reference columns as ID; the operations are named <name>s and <name>
\* with the first letter lowered, add<Name>, put<Name>, del<Name> and
\* batch<Name>
C16_GeneratedSurface ==
  (last.op = "surface") =>
    LET fields == last.fields
        refs   == { i \in 1..Len(fields) : ~NamesBuiltIn(fields[i].type) }
        kept   == SelectSeq(fields, LAMBDA f : f.key # "id")
    IN /\ Range(last.type) =
            { Member(fields[i].key, fields[i].type) : i \in 1..Len(fields) }
            \cup { Member(fields[i].key \o "ID", "ID") : i \in refs }
       /\ Len(last.type) = Len(fields) + Cardinality(refs)
       /\ Len(last.input) = Len(kept)
       /\ \A i \in 1..Len(kept) :
            last.input[i] = Member(kept[i].key,
                                   IF NamesBuiltIn(kept[i].type) THEN kept[i].type ELSE "ID")
       /\ last.queries = <<LoweredFirst(last.name) \o "s", LoweredFirst(last.name)>>
       /\ Range(last.mutations) =
            { "add" \o last.name, "put" \o last.name, "del" \o last.name,
              "batch" \o last.name }

\* the surface of the table UW with an id column, a scalar column and a
\* required list of references
C16_Witness ==
  /\ last.op = "surface"
  /\ last.name = "UW"
  /\ last.fields = <<Member("id", "ID!"), Member("n", "Int!"), Member("w", "[W!]!")>>
  /\ Member("wID", "ID") \in Range(last.type)
  /\ Member("w", "ID") \in Range(last.input)
  /\ last.queries = <<"uWs", "uW">>

\* the object types of a declaration that become tables, and the table of
\* the caller for one of them
Declared(decl) == SelectSeq(decl.types, LAMBDA t : Len(t.fields) > 0)

TableOfCall(name) == TableName(db.prefix, last.user, last.scope, <<name>>)

ColumnNamed(columns, key) == columns[IndexOf(ColNames(columns), key)]

\* C17: after a declaration is registered, every field declared with the
\* name of a column type is a column of that type, every field of another
\* type (a declared or stub type) is a column of type ID, and the column
\* is nullable exactly when the field is not marked required
C17_DeclarationBecomesSchema ==
  (last.op = "registerSchemas" /\ last.ok) =>
    \A i \in 1..Len(Declared(last.decl)) :
      LET t      == Declared(last.decl)[i]
          schema == Define(db, TableOfCall(t.name))
      IN /\ schema.exists
         /\ \A j \in 1..Len(t.fields) :
              LET f == t.fields[j]
                  c == ColumnNamed(schema.columns, f.key)
              IN /\ f.key \in Range(ColNames(schema.columns))
                 /\ c.type = IF f.name \in ColumnTypes THEN f.name ELSE "ID"
                 /\ c.nullable = (f.wraps = <<>> \/ Head(f.wraps) # "NonNull")

\* the object type of the declaration of the last call that has the name
\* of the call, and the columns it declares
Replacing ==
  LET objs == DefineTableHelper(last.decl).objs
  IN objs[CHOOSE i \in 1..Len(objs) : objs[i].name = last.name]

\* C18: replaceSchema of a table that is registered, with a declaration
\* that holds a type of its name, succeeds, leaves the table defined with
\* the columns of the declaration, and keeps what the records hold in the
\* columns that are the same before and after
C18_ReplaceRegisteredSchema ==
  (/\ last.op = "replaceSchema"
   /\ last.pre.catalog[TenantTable(last.name)].exists
   /\ DefineTableHelper(last.decl).ok
   /\ \E t \in Range(DefineTableHelper(last.decl).objs) : t.name = last.name) =>
     LET before == last.pre.tables[Tbl(TenantTable(last.name))]
         after  == db.tables[Tbl(TenantTable(last.name))]
         old    == Define(last.pre, TenantTable(last.name)).columns
         new    == Define(db, TenantTable(last.name)).columns
     IN /\ last.ok
        /\ new = SetId(ColumnsOf(Replacing), "ID!")
        /\ Len(after.rows) = Len(before.rows)
        /\ \A i \in 1..Len(before.rows) :
             \A c \in Range(old) \cap Range(new) :
               ValueAt(after.cols, after.rows[i], c.name)
                 = ValueAt(before.cols, before.rows[i], c.name)

\* the database after every operation of a batch mutation is made as the
\* put or del call of its id, one after the other
RECURSIVE EachById(_, _, _)
EachById(d, table, input) ==
  IF input = <<>> THEN d
  ELSE LET op == Head(input)
       IN EachById(IF op.type = "put" THEN Put(d, table, op.id, op.value).db
                   ELSE IF op.type = "del" THEN Del(d, table, op.id).db
                   ELSE d,
                   table, Tail(input))

\* C19: a batch mutation that succeeds has applied every put and del to
\* the record of the id of the operation, as put<Name> and del<Name> do,
\* and returns one entry for every operation
C19_BatchMutationById ==
  (last.op = "batchMutation" /\ last.ok) =>
     /\ db = EachById(last.pre, last.table, last.ops)
     /\ Len(last.ret) = Len(last.ops)

\* C20: for every user, scope and prefix, the empty scope and the empty
\* prefix included, registerSchemas returns for every declared type a
\* schema with the user, the scope and the type name of the call, and
\* getSchemas of the user and scope afterwards returns those schemas and
\* no schema of another user, scope or name
C20_SchemasOfTheCaller ==
  (last.op = "registerSchemas" /\ last.ok) =>
    /\ Len(last.ret) = Len(Declared(last.decl))
    /\ \A i \in 1..Len(last.ret) :
         /\ last.ret[i].user = last.user
         /\ last.ret[i].scope = last.scope
         /\ last.ret[i].name = Declared(last.decl)[i].name
    /\ Range(last.ret) \subseteq last.schemas
    /\ { <<s.user, s.scope, s.name>> : s \in last.schemas }
         = { <<last.user, last.scope, n>> :
               n \in { m \in TypeNames : Defined(TableOfCall(m)) } }

\* ------------------------------------------------------ compileQuery alone
\* the operand lists of $in, $nin, $all and $none
Elements == { Lit("", c) : c \in {Num(0), Num(1)} }
Lists    == SeqsUpTo(Elements, 2)
ListOps  == {"$in", "$nin", "$all", "$none"}
ArrayOps == {"$all", "$none"}

\* a field before a field with one or several operators
Preceded == { <<Lit("g", Num(1))>> \o q : q \in Simple \cup Ranged }
\* a list operator as the only operator of a field, next to another
\* operator of the field, and inside a logical group
OnlyListOp    == { OnField(<<Arr(op, l)>>) : op \in ListOps, l \in Lists }
BesideArrayOp == { OnField(<<Arr(op, l), Lit("$gt", Num(0))>>) : op \in ArrayOps, l \in Lists }
               \cup { OnField(<<Lit("$gt", Num(0)), Arr(op, l)>>) : op \in ArrayOps, l \in Lists }
GroupedArrayOp ==
  { <<Arr(g, <<Obj("", OnField(<<Arr(op, <<Lit("", Num(1))>>)>>)), Obj("", a)>>)>> :
      g \in Logical, op \in ArrayOps, a \in Parts }

CompileInputs == Queries \cup Preceded \cup OnlyListOp \cup BesideArrayOp \cup GroupedArrayOp

Compiling(query) ==
  [op |-> "compileQuery", query |-> query, compiled |-> CompileQuery(query)]

InitCompile ==
  /\ db = EmptyDb
  /\ nextId = 1
  /\ last = NoCall

CompileQueryAct ==
  /\ Idle
  /\ \E query \in CompileInputs : last' = Compiling(query)
  /\ UNCHANGED <<db, nextId>>

NextCompile ==
  \/ CompileQueryAct
  \/ Resume

SpecCompile == InitCompile /\ [][NextCompile]_vars

\* the right-hand sides of the comparisons of a text, in the order they
\* are written
RECURSIVE PlaceholdersOf(_), PlaceholdersOfAll(_)
PlaceholdersOf(text) ==
  CASE text.t = "cmp" -> <<text.b>>
    [] text.t \in {"not", "paren", "join"} -> PlaceholdersOfAll(text.subs)
    [] OTHER -> <<>>

PlaceholdersOfAll(texts) ==
  IF texts = <<>> THEN <<>>
  ELSE PlaceholdersOf(Head(texts)) \o PlaceholdersOfAll(Tail(texts))

\* every word of a text: the two sides of its comparisons
RECURSIVE WordsOf(_)
WordsOf(text) ==
  CASE text.t = "cmp" -> {text.a, text.b}
    [] text.t \in {"not", "paren", "join"} ->
         UNION { WordsOf(text.subs[i]) : i \in 1..Len(text.subs) }
    [] OTHER -> {}

\* the literals of a query in the order of its keys; the list of $in and
\* $nin is one literal, bound as its pattern
RECURSIVE Literals(_)
Literals(entries) ==
  IF entries = <<>> THEN <<>>
  ELSE LET e == Head(entries)
       IN (IF e.kind = "lit" THEN <<e.val>>
           ELSE IF e.key \in {"$in", "$nin"} THEN <<Pattern>>
           ELSE Literals(e.subs)) \o Literals(Tail(entries))

\* a literal as it would be written into a statement
Written(v) ==
  CASE v.k = "num" -> ToString(v.n)
    [] v.k = "null" -> "null"
    [] OTHER -> "?"

\* C21: the placeholders of the text compileQuery returns are $1 .. $n, n
\* being the number of parameters, parameter k is the k-th literal of the
\* query, and no literal is written into the text
C21_LiteralsAreParameters ==
  (last.op = "compileQuery" /\ last.compiled.ok) =>
    LET text   == last.compiled.query
        params == last.compiled.params
        lits   == Literals(last.query)
    IN /\ Range(PlaceholdersOf(text)) = { Placeholder(k) : k \in 1..Len(params) }
       /\ Len(params) = Len(lits)
       /\ \A k \in 1..Len(params) : params[k] = lits[k]
       /\ \A k \in 1..Len(lits) : Written(lits[k]) \notin WordsOf(text)

\* the queries of one logical group, and what each sub-query of the group
\* compiles to
IsGroup(query) == Len(query) = 1 /\ query[1].key \in Logical

SubCompiled(query) ==
  [i \in 1..Len(query[1].subs) |-> CompileQuery(query[1].subs[i].subs)]

\* C22: a logical group whose sub-queries compile is compiled to the
\* parenthesized texts of the sub-queries joined by AND ($and) or OR ($or),
\* negated for $nor, and every parameter of a sub-query is a parameter of
\* the group
C22_LogicalGroups ==
  (/\ last.op = "compileQuery"
   /\ IsGroup(last.query)
   /\ \A i \in 1..Len(SubCompiled(last.query)) : SubCompiled(last.query)[i].ok) =>
    LET subs   == SubCompiled(last.query)
        key    == last.query[1].key
        joined == TJoin(IF key = "$and" THEN " AND " ELSE " OR ",
                        [i \in 1..Len(subs) |-> TParen(subs[i].query)])
    IN /\ last.compiled.ok
       /\ last.compiled.query = TParen(IF key = "$nor" THEN TNot(joined) ELSE joined)
       /\ \A i \in 1..Len(subs) :
            Range(subs[i].params) \subseteq Range(last.compiled.params)

\* a query that holds one of the keys somewhere
RECURSIVE Uses(_, _)
Uses(entries, keys) ==
  \E i \in 1..Len(entries) :
    entries[i].key \in keys \/ Uses(entries[i].subs, keys)

\* C23: compileQuery raises for every query that uses $all or $none: as
\* the only operator of a field, next to another operator of the field, or
\* inside a logical group
C23_ArrayOperatorsRaise ==
  (last.op = "compileQuery" /\ Uses(last.query, ArrayOps)) => ~last.compiled.ok

\* ------------------------------------------------------ resolveQuery alone
Ordering == {"$gt", "$lt", "$gte", "$lte"}
Operands == {Num(0), Num(1), Num(2)}

\* one operator on the field f: an ordering operator with a number, or a
\* list operator with a list
OrderedOn == { OnField(<<Lit(op, c)>>) : op \in Ordering, c \in Operands }
Listed  == { OnField(<<Arr(op, l)>>) : op \in ListOps, l \in Lists }
ResolveInputs == OrderedOn \cup Listed

\* the record { f: v }: v a scalar (the falsy ones among them) or an array
Scalars == {Num(0), Num(1), Num(2), Bool(FALSE), Empty}
Arrays  == { JArr([i \in 1..Len(l) |-> l[i].val]) : l \in Lists }
ResolveRecords == { <<Entry("f", v)>> : v \in Scalars \cup Arrays }

Resolving(query, record) ==
  [op |-> "resolveQuery", query |-> query, record |-> record,
   resolved |-> ResolveQuery(query, JObj(record))]

InitResolve ==
  /\ db = EmptyDb
  /\ nextId = 1
  /\ last = NoCall

ResolveQueryAct ==
  /\ Idle
  /\ \E query \in ResolveInputs, record \in ResolveRecords :
       last' = Resolving(query, record)
  /\ UNCHANGED <<db, nextId>>

NextResolve ==
  \/ ResolveQueryAct
  \/ Resume

SpecResolve == InitResolve /\ [][NextResolve]_vars

\* the operator, the operand and the value of the field of the last call
AskedOp      == last.query[1].subs[1].key
AskedOperand == last.query[1].subs[1]
AskedValue   == last.record[1].val
AskedList    == { AskedOperand.subs[i].val : i \in 1..Len(AskedOperand.subs) }

\* C24: an ordering operator is true exactly when the value of the field,
\* or its length when it is an array, is greater than ($gt), less than
\* ($lt), at least ($gte) or at most ($lte) the operand
C24_OrderingOperators ==
  (/\ last.op = "resolveQuery"
   /\ AskedOp \in Ordering
   /\ AskedValue.k \in {"num", "array"}) =>
    LET v == Measure(AskedValue).n
        c == AskedOperand.val.n
    IN last.resolved =
         JsBool(CASE AskedOp = "$gt"  -> v > c
                  [] AskedOp = "$lt"  -> v < c
                  [] AskedOp = "$gte" -> v >= c
                  [] AskedOp = "$lte" -> v <= c)

\* C25: for a scalar value, the falsy ones included, $in is true exactly
\* when the value is an element of the list, $nin exactly when it is not,
\* and neither raises
C25_Membership ==
  (/\ last.op = "resolveQuery"
   /\ AskedOp \in {"$in", "$nin"}
   /\ AskedValue.k # "array") =>
    last.resolved = JsBool(IF AskedOp = "$in" THEN AskedValue \in AskedList
                           ELSE AskedValue \notin AskedList)

\* C26: for an array value, $all is true exactly when every element of the
\* list is in the array, and $none exactly when no element of the list is
C26_AllAndNone ==
  (/\ last.op = "resolveQuery"
   /\ AskedOp \in ArrayOps
   /\ AskedValue.k = "array") =>
    last.resolved = JsBool(IF AskedOp = "$all"
                           THEN AskedList \subseteq Range(AskedValue.elems)
                           ELSE AskedList \cap Range(AskedValue.elems) = {})

\* ------------------------------------------- two redefine calls in flight
\* Two calls of redefine on the same table, started together.  A call is
\* suspended where the code awaits: at define(table), and in create at the
\* INSERT of the catalog row; the transaction closures run without
\* suspension.
RaceTable   == "t"
RaceSchemas == {SchemaXY, SchemaXZ, SchemaXYZ, SchemaYX, SchemaUX}

\* the databases the calls start on: the table is absent, or created and
\* holding no record or one
RaceStarts ==
  {EmptyDb}
  \cup { Create(EmptyDb, RaceTable, schema).db : schema \in {SchemaXY, SchemaUX} }
  \cup { Add(Create(EmptyDb, RaceTable, schema).db, RaceTable, Str(1),
             <<Entry("x", Num(1)), Entry("y", Str(0 - 2))>>).db :
           schema \in {SchemaXY, SchemaUX} }

Call(schema) ==
  [schema |-> schema, pc |-> "define", old |-> Define(EmptyDb, RaceTable), ok |-> TRUE]

InitRace ==
  /\ nextId = 1
  /\ \E start \in RaceStarts, a, b \in RaceSchemas :
       /\ a # b
       /\ db = start
       /\ last = [op |-> "redefines", table |-> RaceTable, pre |-> start,
                  calls |-> <<Call(a), Call(b)>>]

\* const old = await this.define(table)
DefineStep ==
  \E p \in 1..2 :
    /\ last.calls[p].pc = "define"
    /\ last' = [last EXCEPT !.calls[p].pc = "defined",
                            !.calls[p].old = Define(db, last.table)]
    /\ UNCHANGED <<db, nextId>>

\* the table was defined: the comparison with old and the transaction
MigrateStep ==
  \E p \in 1..2 :
    LET call == last.calls[p]
        r    == RedefineFrom(db, last.table, call.schema, call.old, 0)
    IN /\ call.pc = "defined"
       /\ call.old.exists
       /\ db' = r.db
       /\ last' = [last EXCEPT !.calls[p].pc = "done", !.calls[p].ok = r.ok]
       /\ UNCHANGED nextId

\* the table was not defined: create, up to the await of the catalog INSERT
InsertStep ==
  \E p \in 1..2 :
    LET call == last.calls[p]
        r    == CatalogInsert(db, last.table, SetId(call.schema.columns, "ID!"),
                              call.schema.indexes)
    IN /\ call.pc = "defined"
       /\ ~call.old.exists
       /\ db' = r.db
       /\ last' = [last EXCEPT !.calls[p].pc = IF r.ok THEN "inserted" ELSE "done",
                               !.calls[p].ok = r.ok]
       /\ UNCHANGED nextId

\* create, after the catalog INSERT: the table and its indexes
CreateStep ==
  \E p \in 1..2 :
    LET call == last.calls[p]
        r    == CreateDefinition(db, last.table, call.schema)
    IN /\ call.pc = "inserted"
       /\ db' = r.db
       /\ last' = [last EXCEPT !.calls[p].pc = "done", !.calls[p].ok = r.ok]
       /\ UNCHANGED nextId

NextRace ==
  \/ DefineStep
  \/ MigrateStep
  \/ InsertStep
  \/ CreateStep

SpecRace == InitRace /\ [][NextRace]_vars

\* the database after the two calls of the race run one after the other
InTurn(first, second) ==
  Redefine(Redefine(last.pre, last.table, last.calls[first].schema, 0).db,
           last.table, last.calls[second].schema, 0).db

BothDone == last.op = "redefines" /\ \A p \in 1..2 : last.calls[p].pc = "done"

\* C27: when two redefine calls on a defined table with different schemas
\* have both returned, the database is the one that running them one after
\* the other, in one of the two orders, leaves: the version has grown by
\* the number of redefinitions that changed the schema and the catalog
\* entry describes the table
C27_ConcurrentRedefines ==
  (BothDone /\ last.pre.catalog[last.table].exists) =>
    \/ db = InTurn(1, 2)
    \/ db = InTurn(2, 1)

\* ------------------------------------------- the catalog and the tables
DropManyAct ==
  /\ Idle
  /\ \E tables \in SeqsUpTo(Names, 2) :
       LET r == DropMany(db, tables)
       IN /\ db' = r.db
          /\ last' = [op |-> "dropMany", tables |-> tables, ok |-> r.ok, pre |-> db]
  /\ UNCHANGED nextId

\* create, redefine, drop, dropMany and dropPrefixed in any order, failing
\* calls among them
NextCatalog ==
  \/ CreateAct
  \/ RedefineAct
  \/ DropAct
  \/ DropManyAct
  \/ DropPrefixedAct
  \/ Resume

SpecCatalog == Init /\ [][NextCatalog]_vars

\* C28: whatever create, redefine, drop, dropMany and dropPrefixed calls
\* were made, and whichever of them failed, a name has a catalog entry
\* exactly when its table exists, and the columns of the table are those of
\* the catalog entry
C28_CatalogMatchesTables ==
  \A t \in Names :
    /\ db.catalog[t].exists <=> db.tables[Tbl(t)].exists
    /\ db.catalog[t].exists =>
         db.tables[Tbl(t)].cols = MapColumns(Define(db, t).columns)

\* --------------------------------------------- the data of several users
KeyNames   == {"k"}
EraseDecls == {DeclW, DeclBoth}

EraseRegisterAct ==
  /\ Cardinality(Registered) < MaxTables
  /\ Register(Users, Scopes, EraseDecls)

PutKeyAct ==
  /\ Idle
  /\ \E user \in Users, scope \in Scopes, key \in KeyNames :
       LET r == PutKey(db, user, scope, key, Num(1))
       IN /\ db' = r.db
          /\ last' = [op |-> "put", user |-> user, scope |-> scope, key |-> key,
                      ok |-> r.ok, pre |-> db]
  /\ UNCHANGED nextId

DelAllUserDataAct ==
  /\ Idle
  /\ \E user \in Users, scope \in Scopes :
       LET r == DelAllUserData(db, user, scope)
       IN /\ db' = r.db
          /\ last' = [op |-> "delAllUserData", user |-> user, scope |-> scope,
                      ok |-> r.ok, pre |-> db]
  /\ UNCHANGED nextId

NextErase ==
  \/ EraseRegisterAct
  \/ PutKeyAct
  \/ DelAllUserDataAct
  \/ Resume

SpecErase == InitRegister /\ [][NextErase]_vars

\* what a database holds for a user and scope: the rows of the key-value
\* store under the keys of the user and scope, and the catalog entries and
\* tables of the user and scope
Held(d, user, scope) ==
  [kv      |-> { e \in d.kv : \E k \in KeyNames : e.key = Key(d.prefix, user, scope, <<k>>) },
   catalog |-> [n \in TypeNames |-> d.catalog[TableName(d.prefix, user, scope, <<n>>)]],
   tables  |-> [n \in TypeNames |-> d.tables[Tbl(TableName(d.prefix, user, scope, <<n>>))]]]

\* C29: delAllUserData(u, s) leaves the keys, catalog entries, tables and
\* rows of every other user as they were, also of a user whose identifier
\* begins with u, and, when a scope is given, those of the other scopes of u
C29_OnlyTheUsersData ==
  (last.op = "delAllUserData") =>
    \A user \in Users, scope \in Scopes :
      (user # last.user \/ (last.scope # "" /\ scope # last.scope)) =>
        Held(db, user, scope) = Held(last.pre, user, scope)

\* ------------------------------------------------ the statement of search
\* /^\w+$/ on the names that occur
IsIdentifier(text) == text \in FieldNames \cup ArrayKeys

\* texts a caller can give that are no identifiers
Hostile == {"x; DROP TABLE t", "x, (SELECT 1)"}

SortOf(sign, name) == SortToken(sign, name, IsIdentifier(name))

Projections ==
  {Projection(FALSE, <<>>)}
  \cup { Projection(TRUE, e) : e \in {<<>>, <<"x">>, <<"x", "y">>} }
  \cup { Projection(TRUE, <<h>>) : h \in Hostile }
  \cup { Projection(TRUE, <<"x", h>>) : h \in Hostile }
StatementQueries ==
  { <<>>, <<Obj("x", <<Lit("$gte", Num(1))>>)>>, <<Lit("y", Num(1))>> }
  \cup { <<Lit(h, Num(1))>> : h \in Hostile }
StatementSorts ==
  { <<>>, <<SortOf("", "x")>>, <<SortOf("-", "x"), SortOf("+", "y")>> }
  \cup { <<SortOf("-", h)>> : h \in Hostile }
  \cup { <<SortOf("", "x"), SortOf("", h)>> : h \in Hostile }
StatementCounts == {Undef, Num(2)}

SearchStatementAct ==
  /\ Idle
  /\ \E projection \in Projections, query \in StatementQueries, sort \in StatementSorts,
        skip \in StatementCounts, limit \in StatementCounts :
       LET search == SearchOptions(TRUE, query, sort, skip, limit)
       IN last' = [op |-> "search", projection |-> projection, search |-> search,
                   statement |-> Statement(projection, search)]
  /\ UNCHANGED <<db, nextId>>

NextStatement ==
  \/ SearchStatementAct
  \/ Resume

SpecStatement == InitSearch /\ [][NextStatement]_vars

\* the left-hand sides of the comparisons of a text
RECURSIVE FieldsOf(_)
FieldsOf(text) ==
  CASE text.t = "cmp" -> {text.a}
    [] text.t \in {"not", "paren", "join"} ->
         UNION { FieldsOf(text.subs[i]) : i \in 1..Len(text.subs) }
    [] OTHER -> {}

\* C30: the statement search builds holds text of the caller only as
\* identifiers: every name after ORDER BY, every entry after SELECT and
\* every field of the predicate is an identifier (a sort token, projection
\* entry or field that is none is not written), and the literals of the
\* query, the limit and skip are parameters
C30_OnlyIdentifiersInStatement ==
  (last.op = "search" /\ last.statement.ok) =>
    LET st == last.statement
    IN /\ \A i \in 1..Len(st.order) : IsIdentifier(st.order[i].name)
       /\ \A i \in 1..Len(st.select) :
            \/ IsIdentifier(st.select[i])
            \/ (st.select[i] = "*" /\ last.projection.entries = <<>>)
       /\ \A f \in FieldsOf(st.where) : IsIdentifier(f) \/ f \in Operators
       /\ \A k \in 1..Len(Literals(last.search.query)) :
            /\ Written(Literals(last.search.query)[k]) \notin WordsOf(st.where)
            /\ Literals(last.search.query)[k] \in Range(st.params)
       /\ Truthy(last.search.limit) =>
            \E k \in 1..Len(st.params) :
              st.limit = <<" LIMIT ", Placeholder(k)>> /\ st.params[k] = last.search.limit
       /\ Truthy(last.search.skip) =>
            \E k \in 1..Len(st.params) :
              st.offset = <<" OFFSET ", Placeholder(k)>> /\ st.params[k] = last.search.skip

====
